---------------------------- MODULE Spec2Model ----------------------------
(***************************************************************************)
(* Model of Oblik_PySide.py (NomenklaturaApp): the accounting table and    *)
(* its column mapping, the substring search with its debounce timer, the   *)
(* search history with its cap and its 2-day retention, and the loaders    *)
(* of the accounting and the stock spreadsheets.                           *)
(*                                                                         *)
(* Text is a sequence of one-character strings.  A spreadsheet cell is a   *)
(* record [k, s, v]: k = "nan" (empty cell), "text" (s is the text),       *)
(* "int" (v is the value) or "float" (v is TWICE the value, so that the    *)
(* halves x.0 and x.5 are exact, as they are in binary floating point).    *)
(* A DataFrame is [width, rows]; rows is a sequence of rows, each a        *)
(* sequence of width cells; column c of the source is position c + 1.      *)
(* Field names are transliterated: Name, Purchase, Profit, Price, Code,    *)
(* Article for the six Ukrainian column labels of the source.              *)
(***************************************************************************)
EXTENDS Integers, Sequences, FiniteSets, TLC

VARIABLES
    phase,                \* "running", or "closed" after closeEvent
    pandas_na_as_text,    \* build: Series.astype(str) turns NaN into "nan"
    folder,               \* names of the accounting workbooks the globs return
    now,                  \* wall clock, in ticks of 1/MinuteTicks minute
    history_file,         \* content of ~/.oblpy_history
    history,              \* self.history
    last_query,           \* self.last_query
    search_edit,          \* text of self.search_edit
    search_timer,         \* self.search_timer: remaining ms of each pending timeout
    df,                   \* self.df
    current_file,         \* self.current_file
    column_mapping,       \* self.column_mapping
    stocks_df,            \* self.stocks_df
    stores,               \* self.stores
    current_stocks_file,  \* self.current_stocks_file
    showing_stocks,       \* self.showing_stocks
    tree,                 \* rows shown in self.tree
    results,              \* labels of the rows last handed to show_results
    msgbox,               \* the message boxes the last handler showed
    raised,               \* the last handler ended by an uncaught exception
    search_outcome,       \* how the last search_items run ended
    auto_load_pending,    \* QTimer.singleShot(150, self.auto_load_files) not yet run
    quiet_ms,             \* ms elapsed since the last edit of the search field
    confirmed_since_edit, \* Enter was pressed since the last edit
    selected,             \* the selected item of self.tree, 0 for none
    stocks_panel          \* content of self.stocks_panel

vars == <<phase, pandas_na_as_text, folder, now, history_file, history, last_query,
          search_edit, search_timer, df, current_file, column_mapping,
          stocks_df, stores, current_stocks_file, showing_stocks, tree,
          results, msgbox, raised, search_outcome, auto_load_pending, quiet_ms,
          confirmed_since_edit, selected, stocks_panel>>

----------------------------------------------------------------------------
(* Text *)

Lower(c) ==
    CASE c = "A" -> "a"
      [] c = "B" -> "b"
      [] c = "N" -> "n"
      [] OTHER -> c

LowerStr(s) == [i \in 1..Len(s) |-> Lower(s[i])]

IsSpace(c) == c = " "

\* str.strip(): leading and trailing whitespace removed
Strip(s) ==
    LET keep == {i \in 1..Len(s) : ~IsSpace(s[i])}
    IN  IF keep = {} THEN <<>>
        ELSE LET lo == CHOOSE i \in keep : \A j \in keep : i <= j
                 hi == CHOOSE i \in keep : \A j \in keep : j <= i
             IN  SubSeq(s, lo, hi)

\* needle in hay (plain substring; the empty needle is in every text)
Contains(hay, needle) ==
    \E i \in 0..(Len(hay) - Len(needle)) :
        SubSeq(hay, i + 1, i + Len(needle)) = needle

EndsWith(s, suf) ==
    /\ Len(suf) <= Len(s)
    /\ SubSeq(s, Len(s) - Len(suf) + 1, Len(s)) = suf

\* str.replace(old, ""): every non-overlapping occurrence removed, left to right
RECURSIVE RemoveAll(_, _)
RemoveAll(s, old) ==
    IF Len(s) < Len(old) \/ Len(old) = 0 THEN s
    ELSE IF SubSeq(s, 1, Len(old)) = old
         THEN RemoveAll(SubSeq(s, Len(old) + 1, Len(s)), old)
         ELSE <<s[1]>> \o RemoveAll(Tail(s), old)

DigitChars == <<"0", "1", "2", "3", "4", "5", "6", "7", "8", "9">>

IsDigit(c) == \E d \in 1..10 : DigitChars[d] = c

DigitVal(c) == (CHOOSE d \in 1..10 : DigitChars[d] = c) - 1

RECURSIVE NatStr(_)
NatStr(n) ==
    IF n < 10 THEN <<DigitChars[n + 1]>>
    ELSE NatStr(n \div 10) \o <<DigitChars[(n % 10) + 1]>>

\* str(int)
IntStr(n) == IF n < 0 THEN <<"-">> \o NatStr(-n) ELSE NatStr(n)

\* str(float) of the float whose double is t: "12.0", "12.5", "-0.5"
FloatStr(t) ==
    LET a == IF t < 0 THEN -t ELSE t
        body == NatStr(a \div 2) \o <<".">> \o (IF a % 2 = 1 THEN <<"5">> ELSE <<"0">>)
    IN  IF t < 0 THEN <<"-">> \o body ELSE body

RECURSIVE DigitsVal(_)
DigitsVal(s) ==
    IF Len(s) = 0 THEN 0
    ELSE 10 * DigitsVal(SubSeq(s, 1, Len(s) - 1)) + DigitVal(s[Len(s)])

AllDigits(s) == Len(s) > 0 /\ \A i \in 1..Len(s) : IsDigit(s[i])

----------------------------------------------------------------------------
(* Cells *)

NaN == [k |-> "nan", s |-> <<>>, v |-> 0]
Text(s) == [k |-> "text", s |-> s, v |-> 0]
IntCell(n) == [k |-> "int", s |-> <<>>, v |-> n]
FloatCell(t) == [k |-> "float", s |-> <<>>, v |-> t]

\* pd.isna(val)
IsNa(c) == c.k = "nan"

\* str(val)
CellStr(c) ==
    CASE c.k = "nan" -> <<"n", "a", "n">>
      [] c.k = "text" -> c.s
      [] c.k = "int" -> IntStr(c.v)
      [] c.k = "float" -> FloatStr(c.v)

\* float(text) for a text t without surrounding whitespace
ParseFloat(t) ==
    IF LowerStr(t) = <<"n", "a", "n">>
    THEN [ok |-> TRUE, nan |-> TRUE, twice |-> 0]
    ELSE IF AllDigits(t)
    THEN [ok |-> TRUE, nan |-> FALSE, twice |-> 2 * DigitsVal(t)]
    ELSE IF /\ Len(t) >= 3
            /\ AllDigits(SubSeq(t, 1, Len(t) - 2))
            /\ t[Len(t) - 1] = "."
            /\ t[Len(t)] \in {"0", "5"}
    THEN [ok |-> TRUE, nan |-> FALSE,
          twice |-> 2 * DigitsVal(SubSeq(t, 1, Len(t) - 2))
                    + (IF t[Len(t)] = "5" THEN 1 ELSE 0)]
    ELSE [ok |-> FALSE, nan |-> FALSE, twice |-> 0]

\* float(val): [ok, nan, twice]; ok = FALSE is the ValueError of a text that
\* is no number.  Texts read: digits, digits "." ("0" or "5"), "nan",
\* each with surrounding whitespace.
ToFloat(c) ==
    CASE c.k = "nan" -> [ok |-> TRUE, nan |-> TRUE, twice |-> 0]
      [] c.k = "int" -> [ok |-> TRUE, nan |-> FALSE, twice |-> 2 * c.v]
      [] c.k = "float" -> [ok |-> TRUE, nan |-> FALSE, twice |-> c.v]
      [] c.k = "text" -> ParseFloat(Strip(c.s))

\* int(round(num)) of the float whose double is t: ties go to the even integer
RoundHalfEven(t) ==
    LET q == t \div 2
    IN  IF t % 2 = 0 THEN q
        ELSE IF q % 2 = 0 THEN q ELSE q + 1

\* the try block of format_number, f being float(val)
FormatFloat(val, f) ==
    IF f.ok /\ ~f.nan THEN IntStr(RoundHalfEven(f.twice)) ELSE CellStr(val)

format_number(val) ==
    IF IsNa(val) THEN <<>> ELSE FormatFloat(val, ToFloat(val))

----------------------------------------------------------------------------
(* DataFrames and the column mapping *)

NoDf == [width |-> -1, rows |-> <<>>]

Frame(w, rows) == [width |-> w, rows |-> rows]

Fields == {"Name", "Purchase", "Profit", "Price", "Code", "Article"}

\* the mapping load_file builds from the start column
MappingAt(start_col) ==
    [Name |-> start_col, Purchase |-> start_col + 1, Profit |-> start_col + 4,
     Price |-> start_col + 5, Code |-> start_col + 7, Article |-> start_col + 6]

\* self.column_mapping as __init__ sets it
InitialMapping == MappingAt(0)

\* an .iloc position inside the frame
InRange(d, idx) == idx >= 0 /\ idx < d.width

\* row.iloc[idx]
Cell(row, idx) == row[idx + 1]


\* every row label of the frame, in order (results = self.df)
AllRows(d) == [i \in 1..Len(d.rows) |-> i]

\* the frame made of the rows idx of d, in that order (self.df[mask])
RowsAt(d, idx) == Frame(d.width, [i \in 1..Len(idx) |-> d.rows[idx[i]]])

----------------------------------------------------------------------------
(* QueryEngine: search_items and show_results *)

SearchFields == <<"Name", "Code", "Article">>

\* series.astype(str).str.lower().str.contains(query.lower(), na=False,
\* regex=False) for one cell; a build whose astype(str) keeps NaN missing
\* answers na=False for it
CellContains(c, query, na_as_text) ==
    IF IsNa(c) /\ ~na_as_text THEN FALSE
    ELSE Contains(LowerStr(CellStr(c)), LowerStr(query))

\* pd.concat(conds, axis=1).any(axis=1) for one row
RowMatches(row, mapping, query, na_as_text) ==
    \E i \in 1..Len(SearchFields) :
        CellContains(Cell(row, mapping[SearchFields[i]]), query, na_as_text)

\* FilterRows with the matching rows in reverse order
FilterRowsReversed(d, mapping, query, na_as_text) ==
    LET n == Len(d.rows)
        F[i \in 0..n] ==
            IF i = 0 THEN <<>>
            ELSE IF RowMatches(d.rows[i], mapping, query, na_as_text)
                 THEN <<i>> \o F[i - 1]
                 ELSE F[i - 1]
    IN  F[n]

\* FilterRows that takes the first row for a header and never returns it
FilterRowsSkipFirst(d, mapping, query, na_as_text) ==
    LET n == Len(d.rows)
        F[i \in 0..n] ==
            IF i <= 1 THEN <<>>
            ELSE IF RowMatches(d.rows[i], mapping, query, na_as_text)
                 THEN Append(F[i - 1], i)
                 ELSE F[i - 1]
    IN  F[n]

\* self.df[mask]: the labels of the matching rows, in table order
FilterRows(d, mapping, query, na_as_text) ==
    LET n == Len(d.rows)
        F[i \in 0..n] ==
            IF i = 0 THEN <<>>
            ELSE IF RowMatches(d.rows[i], mapping, query, na_as_text)
                 THEN Append(F[i - 1], i)
                 ELSE F[i - 1]
    IN  F[n]

\* df.iloc[:, idx] raises IndexError for one of the three searched columns
SearchRaises(d, mapping) ==
    \E i \in 1..Len(SearchFields) : ~InRange(d, mapping[SearchFields[i]])

\* code of search_items and code_value of show_results: the text of the
\* code cell, ".0" removed when the text ends in ".0"
CodeText(code_cell) ==
    IF EndsWith(code_cell, <<".", "0">>)
    THEN RemoveAll(code_cell, <<".", "0">>)
    ELSE code_cell

\* name when the query occurs in the code cell, else code
NameOrCode(code_cell, query, name) ==
    IF Contains(LowerStr(RemoveAll(code_cell, <<".", "0">>)), LowerStr(query))
    THEN name
    ELSE CodeText(code_cell)

\* the text search_items writes to the history for a search that found
\* exactly one row: <<profit, price, name or code>>
ResolvedTuple(row, mapping, query) ==
    <<format_number(Cell(row, mapping.Profit)),
      format_number(Cell(row, mapping.Price)),
      NameOrCode(CellStr(Cell(row, mapping.Code)), query,
                 CellStr(Cell(row, mapping.Name)))>>

\* self.last_query: None after construction, then the last searched query
NoQuery == [set |-> FALSE, q |-> <<>>]
Query(q) == [set |-> TRUE, q |-> q]

\* SearchFound without the comparison with self.last_query
SearchFoundNoDedup(d, mapping, query, prev_query, found) ==
    IF Len(found) = 1
    THEN IF ~InRange(d, mapping.Price) \/ ~InRange(d, mapping.Profit)
         THEN [raised |-> TRUE, rows |-> AllRows(d), log |-> <<>>,
               last_query |-> prev_query, branch |-> "error"]
         ELSE [raised |-> FALSE, rows |-> found,
               log |-> <<[kind |-> "search", query |-> query,
                          resolved |-> ResolvedTuple(d.rows[found[1]], mapping, query),
                          n |-> 0]>>,
               last_query |-> Query(query),
               branch |-> IF Query(query) = prev_query THEN "repeat" ELSE "recorded"]
    ELSE [raised |-> FALSE, rows |-> found,
          log |-> <<[kind |-> "search", query |-> query, resolved |-> <<>>, n |-> 0]>>,
          last_query |-> Query(query),
          branch |-> IF Query(query) = prev_query THEN "repeat" ELSE "recorded"]

\* The try block of search_items for a non-empty query:
\* [raised, rows, log, last_query, branch]; log holds the message to record,
\* if any; branch names the path taken.  SearchFound is the part after the
\* mask, found being the labels of self.df[mask].
SearchFound(d, mapping, query, prev_query, found) ==
    IF Query(query) = prev_query
    THEN [raised |-> FALSE, rows |-> found, log |-> <<>>,
          last_query |-> Query(query), branch |-> "repeat"]
    ELSE IF Len(found) = 1
    THEN IF ~InRange(d, mapping.Price) \/ ~InRange(d, mapping.Profit)
         THEN [raised |-> TRUE, rows |-> AllRows(d), log |-> <<>>,
               last_query |-> prev_query, branch |-> "error"]
         ELSE [raised |-> FALSE, rows |-> found,
               log |-> <<[kind |-> "search", query |-> query,
                          resolved |-> ResolvedTuple(d.rows[found[1]], mapping, query),
                          n |-> 0]>>,
               last_query |-> Query(query), branch |-> "recorded"]
    ELSE [raised |-> FALSE, rows |-> found,
          log |-> <<[kind |-> "search", query |-> query, resolved |-> <<>>, n |-> 0]>>,
          last_query |-> Query(query), branch |-> "recorded"]

SearchTry(d, mapping, query, prev_query, na_as_text) ==
    IF SearchRaises(d, mapping)
    THEN [raised |-> TRUE, rows |-> AllRows(d), log |-> <<>>, last_query |-> prev_query,
          branch |-> "error"]
    ELSE SearchFound(d, mapping, query, prev_query,
                     FilterRows(d, mapping, query, na_as_text))

\* search_items up to the call of show_results, for the text of the search field
SearchQuery(d, mapping, query, prev_query, na_as_text) ==
    IF query # <<>>
    THEN SearchTry(d, mapping, query, prev_query, na_as_text)
    ELSE [raised |-> FALSE, rows |-> AllRows(d), log |-> <<>>,
          last_query |-> prev_query, branch |-> "all"]

SearchOutcome(d, mapping, text, prev_query, na_as_text) ==
    SearchQuery(d, mapping, Strip(text), prev_query, na_as_text)

\* the pure search of the QueryEngine: the rows search_items hands to show_results
Search(d, mapping, text, na_as_text) ==
    RowsAt(d, SearchOutcome(d, mapping, text, NoQuery, na_as_text).rows)

DisplayFields == {"Name", "Profit", "Price", "Code", "Article"}

\* show_results raises IndexError on the first row it displays
ShowRaises(d, mapping) ==
    /\ Len(d.rows) > 0
    /\ \E f \in DisplayFields : ~InRange(d, mapping[f])

\* purchase of show_results: Price - Profit, "" when float() raises
Purchase(price, profit) ==
    IF ~price.ok \/ ~profit.ok THEN <<>>
    ELSE IF price.nan \/ profit.nan THEN format_number(NaN)
    ELSE format_number(FloatCell(price.twice - profit.twice))

\* PurchaseText read from the column the mapping assigns to Purchase
PurchaseTextFromColumn(row, mapping) ==
    IF mapping.Purchase + 1 \in DOMAIN row
    THEN format_number(Cell(row, mapping.Purchase))
    ELSE <<>>

PurchaseText(row, mapping) ==
    Purchase(ToFloat(Cell(row, mapping.Price)), ToFloat(Cell(row, mapping.Profit)))

\* the values show_results puts into one tree item
DisplayRow(row, mapping) ==
    [Name |-> CellStr(Cell(row, mapping.Name)),
     Purchase |-> PurchaseText(row, mapping),
     Profit |-> format_number(Cell(row, mapping.Profit)),
     Price |-> format_number(Cell(row, mapping.Price)),
     Code |-> CodeText(CellStr(Cell(row, mapping.Code))),
     Article |-> CellStr(Cell(row, mapping.Article))]

\* the content of self.tree after show_results(d): cleared, then one item
\* per row; nothing is added when the first row raises
show_results(d, mapping) ==
    IF d = NoDf \/ ShowRaises(d, mapping) THEN <<>>
    ELSE [i \in 1..Len(d.rows) |-> DisplayRow(d.rows[i], mapping)]

----------------------------------------------------------------------------
(* HistoryLog *)

\* ticks per minute: the clock is finer than the minute a timestamp keeps
MinuteTicks == 2

DayMinutes == 1440

RetentionDays == 2

\* timedelta(days=2), in ticks
TwoDays == RetentionDays * DayMinutes * MinuteTicks

HistoryCap == 100

\* datetime.now().strftime("%Y-%m-%d %H:%M"): the minute, seconds dropped
Timestamp(t) == t \div MinuteTicks

\* datetime.strptime(ts, "%Y-%m-%d %H:%M"), in ticks
ParseTimestamp(ts) == ts * MinuteTicks

Message(kind, query, resolved, n) ==
    [kind |-> kind, query |-> query, resolved |-> resolved, n |-> n]

\* the entry f"{timestamp} - {message}"
Entry(ts, msg) ==
    [ts |-> ts, kind |-> msg.kind, query |-> msg.query,
     resolved |-> msg.resolved, n |-> msg.n]

Take(s, n) == IF Len(s) <= n THEN s ELSE SubSeq(s, 1, n)

\* log_action that cuts the list before the new entry is inserted
log_action_cut_first(h, msg, t) == <<Entry(Timestamp(t), msg)>> \o Take(h, HistoryCap)

\* self.history after log_action(msg) at time t
log_action(h, msg, t) == Take(<<Entry(Timestamp(t), msg)>> \o h, HistoryCap)

\* the entry is kept by the 2-day filter of save_history and load_history
Recent(e, t) == ParseTimestamp(e.ts) > t - TwoDays

RecentOnly(h, t) == SelectSeq(h, LAMBDA e : Recent(e, t))

\* the history file: json is what json.load makes of it, "list", "object"
\* (entries are then its keys, which a loop over a dict yields), "scalar" (a
\* number, true, false or null) or "invalid" (the file cannot be opened or
\* is no JSON)
NoFile == [exists |-> FALSE, json |-> "list", entries |-> <<>>]

\* save_history that writes the list as it is
save_history_unfiltered(h, t) == [exists |-> TRUE, json |-> "list", entries |-> h]

\* the history file after save_history at time t
save_history(h, t) == [exists |-> TRUE, json |-> "list", entries |-> RecentOnly(h, t)]

\* an item of the file that is no text, or a text whose part before " - "
\* strptime does not parse
NoTimestamp == -1

Unparsable(e) == e.ts = NoTimestamp

\* the try block of load_history raises: open or json.load fails, the
\* value cannot be looped over, or strptime fails on an item
LoadRaises(file) ==
    /\ file.exists
    /\ \/ file.json \in {"invalid", "scalar"}
       \/ \E i \in 1..Len(file.entries) : Unparsable(file.entries[i])

\* load_history that leaves out the items it cannot parse
load_history_skipping(h, file, t) ==
    log_action(IF ~file.exists \/ file.json \in {"invalid", "scalar"} THEN h
               ELSE RecentOnly(SelectSeq(file.entries, LAMBDA e : ~Unparsable(e)), t),
               Message("history_loaded", <<>>, <<>>, 0), t)

\* self.history after load_history at time t, starting from self.history = h
load_history(h, file, t) ==
    log_action(IF ~file.exists THEN h
               ELSE IF LoadRaises(file) THEN <<>>
               ELSE RecentOnly(file.entries, t),
               Message("history_loaded", <<>>, <<>>, 0), t)

----------------------------------------------------------------------------
(* AccountingTableParser *)

ScanRows == 10

\* the first column with a value in any row of the frame
FirstColumnOfWholeFrame(d) ==
    LET cols == {c \in 0..(d.width - 1) :
                    \E r \in 1..Len(d.rows) : ~IsNa(Cell(d.rows[r], c))}
    IN  IF cols = {} THEN 0
        ELSE CHOOSE c \in cols : \A c2 \in cols : c <= c2

\* _find_data_start_column
find_data_start_column(d) ==
    LET upto == IF Len(d.rows) < ScanRows THEN Len(d.rows) ELSE ScanRows
        has_data(c) == \E r \in 1..upto : ~IsNa(Cell(d.rows[r], c))
        cols == {c \in 0..(d.width - 1) : has_data(c)}
    IN  IF cols = {} THEN 0
        ELSE CHOOSE c \in cols : \A c2 \in cols : c <= c2

Unreadable == [width |-> -2, rows |-> <<>>]

\* load_file once the mapping is built: show_all_items
Loaded(path, content, mapping) ==
    [raised |-> ShowRaises(content, mapping), df |-> content, current_file |-> path,
     column_mapping |-> mapping, tree |-> show_results(content, mapping)]

\* load_file on the content read from the path:
\* [raised, df, current_file, column_mapping, tree]
load_file(path, content, old_df, old_file, old_mapping, old_tree) ==
    IF content = Unreadable
    THEN [raised |-> TRUE, df |-> old_df, current_file |-> old_file,
          column_mapping |-> old_mapping, tree |-> old_tree]
    ELSE Loaded(path, content, MappingAt(find_data_start_column(content)))

----------------------------------------------------------------------------
(* StockTableParser *)

HeaderScanRows == 15

MinHeaderCells == 3

StoreMarkers == {<<"a", "r", "s", "e", "n">>, <<"a", "a", "a">>}

DefaultStore == <<"A", "A", "A">>

TotalMarker == <<"i", "t", "o", "g">>

NoStocks == [cols |-> <<>>, rows |-> <<>>, loaded |-> FALSE]

\* the row has more than 3 non-empty cells and a text cell with a store marker
IsStoresRow(row) ==
    /\ Cardinality({c \in 1..Len(row) : ~IsNa(row[c])}) > MinHeaderCells
    /\ \E c \in 1..Len(row) :
          /\ row[c].k = "text"
          /\ \E m \in StoreMarkers : Contains(LowerStr(row[c].s), m)

\* the first row of the whole frame that is a stores row, -1 for none
FindStoresRowAnywhere(d) ==
    LET rows == {i \in 0..(Len(d.rows) - 1) : IsStoresRow(d.rows[i + 1])}
    IN  IF rows = {} THEN -1
        ELSE CHOOSE i \in rows : \A j \in rows : i <= j

\* stores_row of load_stocks_file, -1 for None
FindStoresRow(d) ==
    LET upto == IF Len(d.rows) < HeaderScanRows THEN Len(d.rows) ELSE HeaderScanRows
        rows == {i \in 0..(upto - 1) : IsStoresRow(d.rows[i + 1])}
    IN  IF rows = {} THEN -1
        ELSE CHOOSE i \in rows : \A j \in rows : i <= j

\* art_col_idx: data_row.first_valid_index(), 0 when the row is all empty
FirstValidIndex(row) ==
    LET valid == {c \in 0..(Len(row) - 1) : ~IsNa(row[c + 1])}
    IN  IF valid = {} THEN 0
        ELSE CHOOSE c \in valid : \A c2 \in valid : c <= c2

\* one turn of the stores loop for the trimmed header text raw: the name
\* appended, if any
StoreName(raw, is_first) ==
    IF is_first /\ (raw = <<>> \/ LowerStr(raw) = <<"n", "a", "n">>)
    THEN <<DefaultStore>>
    ELSE IF raw = <<>> THEN <<>>
    ELSE IF LowerStr(raw) = TotalMarker THEN <<>>
    ELSE <<raw>>

\* the stores list built from the header row, columns first..width-1
StoreNames(header, first, width) ==
    LET F[col \in (first - 1)..(width - 1)] ==
            IF col < first THEN <<>>
            ELSE F[col - 1] \o StoreName(Strip(CellStr(header[col + 1])), col = first)
    IN  IF first > width - 1 THEN <<>> ELSE F[width - 1]

\* pd.to_numeric(errors='coerce').fillna(0).astype(int) for one cell
Truncated(f) ==
    IF ~f.ok \/ f.nan THEN 0
    ELSE IF f.twice >= 0 THEN f.twice \div 2 ELSE -((-f.twice) \div 2)

Quantity(c) == Truncated(ToFloat(c))

HasDuplicates(names) ==
    \E i, j \in 1..Len(names) : i < j /\ names[i] = names[j]

\* one row of stocks_df: Article, Name and the quantity of the n columns
\* that follow the Name column
StockRecord(row, art_col_idx, n) ==
    [Article |-> row[art_col_idx + 1], Name |-> row[art_col_idx + 2],
     qty |-> [i \in 1..n |-> Quantity(row[art_col_idx + 2 + i])]]

\* dropna(subset=["Арт", "Найменування"], how='all'), then the conversion
StockRecords(data, art_col_idx, n) ==
    LET kept == SelectSeq(data, LAMBDA row : ~(IsNa(row[art_col_idx + 1])
                                                /\ IsNa(row[art_col_idx + 2])))
    IN  [i \in 1..Len(kept) |-> StockRecord(kept[i], art_col_idx, n)]

\* load_stocks_file from self.stores = stores on: the table is cut out,
\* renamed, cleaned and converted
StocksTable(path, content, old_stocks, data_start_row, art_col_idx, names) ==
    IF art_col_idx + 1 >= content.width \/ HasDuplicates(names)
    THEN [outcome |-> "raised", stores |-> names, stocks_df |-> old_stocks,
          current_stocks_file |-> path]
    ELSE [outcome |-> "ok", stores |-> names,
          stocks_df |->
              [cols |-> names,
               rows |-> StockRecords(
                            SubSeq(content.rows, data_start_row + 1, Len(content.rows)),
                            art_col_idx, Len(names)),
               loaded |-> TRUE],
          current_stocks_file |-> path]

\* load_stocks_file once the data row is read: the columns and the stores
StocksFromData(path, content, old_stocks, stores_row, art_col_idx) ==
    StocksTable(path, content, old_stocks, stores_row + 2, art_col_idx,
                StoreNames(content.rows[stores_row + 1], art_col_idx + 2, content.width))

\* load_stocks_file once the header scan ended with stores_row
StocksFromHeader(path, content, old_stores, old_stocks, stores_row) ==
    IF stores_row = -1
    THEN [outcome |-> "no_header", stores |-> old_stores, stocks_df |-> old_stocks,
          current_stocks_file |-> path]
    ELSE IF stores_row + 2 >= Len(content.rows)
    THEN [outcome |-> "raised", stores |-> old_stores, stocks_df |-> old_stocks,
          current_stocks_file |-> path]
    ELSE StocksFromData(path, content, old_stocks, stores_row,
                        FirstValidIndex(content.rows[stores_row + 3]))

\* load_stocks_file on the content read from the path.  outcome is
\* "unreadable" (read_excel_any raised), "no_header" (warning shown and a
\* normal return), "raised" (an exception after self.stores was assigned or
\* before it) or "ok"; stores, stocks_df, current_stocks_file are the fields
\* as the call leaves them.
load_stocks_file(path, content, old_stores, old_stocks, old_file) ==
    IF content = Unreadable
    THEN [outcome |-> "unreadable", stores |-> old_stores, stocks_df |-> old_stocks,
          current_stocks_file |-> old_file]
    ELSE StocksFromHeader(path, content, old_stores, old_stocks, FindStoresRow(content))

----------------------------------------------------------------------------
(* File discovery: extract_date_from_filename, get_latest_file and         *)
(* find_accounting_files.  A file name is a sequence of characters; the    *)
(* word the accounting files start with is one element, "Oblik" for the    *)
(* Cyrillic word of the patterns and "oblik" for its lower case, "OBLIK"   *)
(* for the Latin transliteration.                                           *)

\* the year datetime.now().year returns
CurrentYear == 2026

\* [.,-] of extract_date_from_filename
DateSeps == {".", ",", "-"}

\* [.,] of the date_pattern of find_accounting_files
FilterSeps == {".", ","}

DigitsAt(s, i, n) ==
    /\ i >= 1
    /\ i + n - 1 <= Len(s)
    /\ \A k \in i..(i + n - 1) : IsDigit(s[k])

SepAt(s, i, seps) == i >= 1 /\ i <= Len(s) /\ s[i] \in seps

\* (\d{1,2})[.,-](\d{1,2})(?:[.,-] at position i with dl day digits and ml
\* month digits
DayMonthAt(s, i, dl, ml) ==
    /\ DigitsAt(s, i, dl)
    /\ SepAt(s, i + dl, DateSeps)
    /\ DigitsAt(s, i + dl + 1, ml)
    /\ SepAt(s, i + dl + ml + 1, DateSeps)

\* the order in which the greedy \d{1,2} groups are tried
DigitSplits == <<[dl |-> 2, ml |-> 2], [dl |-> 2, ml |-> 1],
                 [dl |-> 1, ml |-> 2], [dl |-> 1, ml |-> 1]>>

\* (\d{2,4})? from position i: the number of digits taken, 0 for no year
YearDigits(s, i) ==
    IF DigitsAt(s, i, 4) THEN 4
    ELSE IF DigitsAt(s, i, 3) THEN 3
    ELSE IF DigitsAt(s, i, 2) THEN 2
    ELSE 0

\* match.groups() for the match at position i with the split sp; year is -1
\* for None
DateGroups(s, i, sp) ==
    [found |-> TRUE,
     day |-> DigitsVal(SubSeq(s, i, i + sp.dl - 1)),
     month |-> DigitsVal(SubSeq(s, i + sp.dl + 1, i + sp.dl + sp.ml)),
     year |-> IF YearDigits(s, i + sp.dl + sp.ml + 2) = 0 THEN -1
              ELSE DigitsVal(SubSeq(s, i + sp.dl + sp.ml + 2,
                                    i + sp.dl + sp.ml + 1
                                    + YearDigits(s, i + sp.dl + sp.ml + 2)))]

NoMatch == [found |-> FALSE, day |-> 0, month |-> 0, year |-> -1]

FirstSplit(s, i) ==
    CHOOSE k \in 1..Len(DigitSplits) :
        /\ DayMonthAt(s, i, DigitSplits[k].dl, DigitSplits[k].ml)
        /\ \A j \in 1..(k - 1) : ~DayMonthAt(s, i, DigitSplits[j].dl, DigitSplits[j].ml)

\* re.search of the date pattern: the leftmost match, the first split that
\* matches there
DateSearch(s) ==
    LET starts == {i \in 1..Len(s) :
                      \E k \in 1..Len(DigitSplits) :
                          DayMonthAt(s, i, DigitSplits[k].dl, DigitSplits[k].ml)}
    IN  IF starts = {} THEN NoMatch
        ELSE DateGroups(s, CHOOSE i \in starts : \A j \in starts : i <= j,
                        DigitSplits[FirstSplit(s, CHOOSE i \in starts :
                                                      \A j \in starts : i <= j)])

IsLeap(y) == (y % 4 = 0 /\ y % 100 # 0) \/ y % 400 = 0

DaysInMonth(y, m) ==
    IF m = 2 THEN (IF IsLeap(y) THEN 29 ELSE 28)
    ELSE IF m \in {4, 6, 9, 11} THEN 30
    ELSE 31

\* datetime(year, month, day) does not raise ValueError
ValidDate(y, m, d) ==
    /\ y >= 1 /\ y <= 9999
    /\ m >= 1 /\ m <= 12
    /\ d >= 1 /\ d <= DaysInMonth(y, m)

\* datetime.min
DateMin == [year |-> 1, month |-> 1, day |-> 1]

\* the date built from the groups, year being the year after its defaults
DateOf(year, month, day) ==
    IF ValidDate(year, month, day)
    THEN [year |-> year, month |-> month, day |-> day]
    ELSE DateMin

FullYear(year, this_year) ==
    IF year = -1 THEN (IF this_year < 100 THEN this_year + 2000 ELSE this_year)
    ELSE IF year < 100 THEN year + 2000
    ELSE year

DateFromGroups(g, this_year) ==
    IF ~g.found THEN DateMin
    ELSE DateOf(FullYear(g.year, this_year), g.month, g.day)

extract_date_from_filename(filename, this_year) ==
    DateFromGroups(DateSearch(filename), this_year)

\* the order of datetime values
DateKey(d) == d.year * 10000 + d.month * 100 + d.day

\* one step of the sort with reverse=True, an item put after the items of
\* an earlier date
RECURSIVE InsertLatestLast(_, _)
InsertLatestLast(sorted, item) ==
    IF sorted = <<>> THEN <<item>>
    ELSE IF DateKey(item.date) >= DateKey(Head(sorted).date) THEN <<item>> \o sorted
    ELSE <<Head(sorted)>> \o InsertLatestLast(Tail(sorted), item)

\* one step of sorted(files_with_dates, key=date, reverse=True): the sort
\* is stable, so an item goes after the items of the same date
RECURSIVE InsertByDate(_, _)
InsertByDate(sorted, item) ==
    IF sorted = <<>> THEN <<item>>
    ELSE IF DateKey(item.date) > DateKey(Head(sorted).date) THEN <<item>> \o sorted
    ELSE <<Head(sorted)>> \o InsertByDate(Tail(sorted), item)

\* files_sorted: the positions in files with their dates, latest first
FilesSorted(files, this_year) ==
    LET F[i \in 0..Len(files)] ==
            IF i = 0 THEN <<>>
            ELSE InsertByDate(F[i - 1],
                              [pos |-> i,
                               date |-> extract_date_from_filename(files[i], this_year)])
    IN  F[Len(files)]

\* get_latest_file: the position in files of files_sorted[0][0], 0 for None
get_latest_file(files, this_year) ==
    IF files = <<>> THEN 0 ELSE FilesSorted(files, this_year)[1].pos

\* the word of the date_pattern under re.IGNORECASE
FilterWords == {"Oblik", "oblik"}

\* [\s_]* from position i: the position after the run
RECURSIVE SkipGap(_, _)
SkipGap(s, i) ==
    IF i <= Len(s) /\ s[i] \in {" ", "_"} THEN SkipGap(s, i + 1) ELSE i

\* \d{1,2}[.,]\d{1,2} at position i
FilterDateAt(s, i) ==
    \E dl \in 1..2 :
        /\ DigitsAt(s, i, dl)
        /\ SepAt(s, i + dl, FilterSeps)
        /\ DigitsAt(s, i + dl + 1, 1)

\* date_pattern.search(os.path.basename(f))
HasFilterDate(s) ==
    \E p \in 1..Len(s) : s[p] \in FilterWords /\ FilterDateAt(s, SkipGap(s, p + 1))

\* find_accounting_files for the files the globs of the directory return
find_accounting_files(files) ==
    IF SelectSeq(files, HasFilterDate) # <<>>
    THEN SelectSeq(files, HasFilterDate)
    ELSE files

----------------------------------------------------------------------------
(* StockResolver and the stock panel: update_stocks_display and            *)
(* display_stock_info                                                       *)

DisplayColumns == 3

\* df[col].astype(str).str.strip() == str(text).strip() for one cell; a
\* build whose astype(str) keeps NaN missing answers False for it
StockCellEquals(c, text, na_as_text) ==
    IF IsNa(c) /\ ~na_as_text THEN FALSE
    ELSE Strip(CellStr(c)) = Strip(text)

\* the labels of the stock records whose field equals the text, in table order
StockMatches(st, field, text, na_as_text) ==
    LET n == Len(st.rows)
        F[i \in 0..n] ==
            IF i = 0 THEN <<>>
            ELSE IF StockCellEquals(st.rows[i][field], text, na_as_text)
                 THEN Append(F[i - 1], i)
                 ELSE F[i - 1]
    IN  F[n]

\* same_articles: used when it holds exactly one record
ByArticle(same_articles) ==
    IF Len(same_articles) = 1 THEN same_articles[1] ELSE 0

\* ResolveFrom that tries the article before the name
ResolveFromArticleFirst(st, stock_items, article, na_as_text) ==
    IF ByArticle(StockMatches(st, "Article", article, na_as_text)) # 0
    THEN ByArticle(StockMatches(st, "Article", article, na_as_text))
    ELSE IF stock_items # <<>> THEN stock_items[1]
    ELSE 0

\* stock_items after the fallback: the label of stock_items.iloc[0], 0 when
\* stock_items is empty
ResolveFrom(st, stock_items, article, na_as_text) ==
    IF stock_items # <<>> THEN stock_items[1]
    ELSE IF article # <<>> /\ Strip(article) # <<>>
    THEN ByArticle(StockMatches(st, "Article", article, na_as_text))
    ELSE 0

\* the record update_stocks_display resolves for the texts of the selected
\* tree item
ResolveStock(st, name, article, na_as_text) ==
    ResolveFrom(st, StockMatches(st, "Name", name, na_as_text), article, na_as_text)

\* int(stock_item[store]), 0 when the record has no such column
StoreQty(st, rec, store) ==
    LET at == {k \in 1..Len(st.cols) : st.cols[k] = store}
    IN  IF at = {} THEN 0 ELSE st.rows[rec].qty[CHOOSE k \in at : TRUE]

\* available: (store, qty) for the stores of self.stores with qty > 0
Available(st, rec, store_list) ==
    LET F[i \in 0..Len(store_list)] ==
            IF i = 0 THEN <<>>
            ELSE IF StoreQty(st, rec, store_list[i]) > 0
                 THEN Append(F[i - 1], [store |-> store_list[i],
                                        qty |-> StoreQty(st, rec, store_list[i])])
                 ELSE F[i - 1]
    IN  F[Len(store_list)]

\* available[lo:hi]
Slice(s, lo, hi) ==
    IF lo >= Len(s) THEN <<>>
    ELSE SubSeq(s, lo + 1, IF hi < Len(s) THEN hi ELSE Len(s))

\* Columns with per_col rounded down
ColumnsRoundedDown(available) ==
    LET per_col == IF Len(available) < DisplayColumns THEN 1
                   ELSE Len(available) \div DisplayColumns
    IN  [i \in 1..DisplayColumns |-> Slice(available, (i - 1) * per_col, i * per_col)]

\* cols of display_stock_info: per_col = ceil(len / 3) items per column
Columns(available) ==
    LET per_col == (Len(available) + DisplayColumns - 1) \div DisplayColumns
    IN  [i \in 1..DisplayColumns |-> Slice(available, (i - 1) * per_col, i * per_col)]

NoColumns == [i \in 1..DisplayColumns |-> <<>>]

EmptyPanel == [kind |-> "empty", rec |-> 0, cols |-> NoColumns]

\* display_stock_info for the record rec: the title, then the grid or the
\* "not available" label
display_stock_info(rec, available) ==
    IF available = <<>>
    THEN [kind |-> "none_available", rec |-> rec, cols |-> NoColumns]
    ELSE [kind |-> "stores", rec |-> rec, cols |-> Columns(available)]

ShowResolved(st, store_list, rec) ==
    IF rec = 0 THEN [kind |-> "not_found", rec |-> 0, cols |-> NoColumns]
    ELSE display_stock_info(rec, Available(st, rec, store_list))

\* the content of self.stocks_panel after update_stocks_display; sel is the
\* selected item of the tree, 0 for none
update_stocks_display(st, store_list, tr, sel, na_as_text) ==
    IF ~st.loaded THEN [kind |-> "not_loaded", rec |-> 0, cols |-> NoColumns]
    ELSE IF sel = 0 THEN [kind |-> "select_item", rec |-> 0, cols |-> NoColumns]
    ELSE ShowResolved(st, store_list,
                      ResolveStock(st, tr[sel].Name, tr[sel].Article, na_as_text))

----------------------------------------------------------------------------
(* The files the file dialogs and the auto-discovery can deliver, and the   *)
(* texts the user types, pastes or picks.                                   *)

\* accounting sheet: Name | - | - | - | Profit | Price | Article | Code
GoodAccounting ==
    Frame(8, << <<Text(<<"a", "b">>), NaN, NaN, NaN, FloatCell(4), FloatCell(11),
                  Text(<<"n", "1">>), FloatCell(24)>>,
                <<Text(<<"B">>), NaN, NaN, NaN, NaN, Text(<<"b">>), NaN, IntCell(7)>> >>)

\* the same export cut after the Article column: no Code column
NarrowAccounting ==
    Frame(7, << <<Text(<<"a">>), NaN, NaN, NaN, IntCell(1), IntCell(3), NaN>> >>)

AccountingFiles == <<GoodAccounting, NarrowAccounting, Unreadable>>

\* stock sheet: header row 0, a sub-header row, data from row 2
GoodStocks ==
    Frame(5, << <<Text(<<"n">>), Text(<<"b">>), Text(<<"A", "r", "s", "e", "n">>),
                  Text(<<"b">>), Text(<<"i", "t", "o", "g">>)>>,
                <<NaN, NaN, NaN, NaN, NaN>>,
                <<Text(<<"n", "1">>), Text(<<"a", "b">>), IntCell(2), NaN, IntCell(2)>> >>)

\* no cell of the first rows holds a store marker
NoHeaderStocks ==
    Frame(5, << <<Text(<<"n">>), Text(<<"b">>), Text(<<"b">>), Text(<<"b">>), NaN>>,
                <<NaN, NaN, NaN, NaN, NaN>>,
                <<Text(<<"n", "1">>), Text(<<"a", "b">>), IntCell(2), NaN, NaN>> >>)

\* two store columns with the same header
RepeatedStoreStocks ==
    Frame(5, << <<Text(<<"n">>), Text(<<"b">>), Text(<<"A", "r", "s", "e", "n">>),
                  Text(<<"c">>), Text(<<"c">>)>>,
                <<NaN, NaN, NaN, NaN, NaN>>,
                <<Text(<<"n", "1">>), Text(<<"a", "b">>), IntCell(2), IntCell(1), NaN>> >>)

StockFiles == <<GoodStocks, NoHeaderStocks, Unreadable, RepeatedStoreStocks>>

TypedTexts == {<<>>, <<"a">>, <<"a", "b">>, <<"a", " ">>}

\* quick_texts of _build_ui, one preset
quick_texts == {<<"b">>}

ClipboardTexts == {<<"a">>}

\* the mappings the dialog is used to set: one field moved
DialogMappings == {[InitialMapping EXCEPT !.Code = 9],
                   [InitialMapping EXCEPT !.Purchase = 2]}

search_delay_ms == 1000

\* the step in which the model lets the debounce interval pass
TimerStepMs == 500

MaxHistory == 3

MaxClockTicks == 1

MaxClockDays == 3

DayTicks == DayMinutes * MinuteTicks

RECURSIVE LogAll(_, _, _)
LogAll(h, msgs, t) ==
    IF msgs = <<>> THEN h
    ELSE LogAll(log_action(h, Head(msgs), t), Tail(msgs), t)

Min(a, b) == IF a < b THEN a ELSE b

----------------------------------------------------------------------------
(* The handlers *)

\* a start that leaves the timeout already pending in place
debounce_search_queued(timer) == timer \cup {search_delay_ms}

\* QTimer.start(msec) of the single-shot search_timer: a running timer is
\* stopped and restarted, so one timeout is pending
debounce_search(timer) == {search_delay_ms}

\* search_items(record_history=True) on the text of the search field
search_items(text) ==
    IF df = NoDf
    THEN /\ UNCHANGED <<history, last_query, results, tree, selected, stocks_panel>>
         /\ msgbox' = {}
         /\ raised' = FALSE
         /\ search_outcome' = "none"
    ELSE \E o \in {SearchOutcome(df, column_mapping, text, last_query,
                                 pandas_na_as_text)} :
             /\ history' = LogAll(history, o.log, now)
             /\ last_query' = o.last_query
             /\ results' = o.rows
             /\ tree' = show_results(RowsAt(df, o.rows), column_mapping)
             /\ msgbox' = IF o.raised THEN {"search_error"} ELSE {}
             /\ raised' = ShowRaises(RowsAt(df, o.rows), column_mapping)
             /\ search_outcome' = o.branch
             /\ selected' = 0
             /\ stocks_panel' =
                   IF showing_stocks /\ ~ShowRaises(RowsAt(df, o.rows), column_mapping)
                   THEN update_stocks_display(stocks_df, stores, tree', 0,
                                              pandas_na_as_text)
                   ELSE stocks_panel

Running == phase = "running"

\* search_edit.textEdited: the user changed the text
TextEdited(t) ==
    /\ Running
    /\ t # search_edit
    /\ search_edit' = t
    /\ search_timer' = debounce_search(search_timer)
    /\ quiet_ms' = 0
    /\ confirmed_since_edit' = FALSE
    /\ msgbox' = {}
    /\ raised' = FALSE
    /\ UNCHANGED <<search_outcome, selected, stocks_panel>>
    /\ UNCHANGED <<phase, pandas_na_as_text, folder, now, history_file, history, last_query,
                   df, current_file, column_mapping, stocks_df, stores,
                   current_stocks_file, showing_stocks, tree, results,
                   auto_load_pending>>

\* time passes while a timeout is pending
TimerElapse ==
    /\ Running
    /\ search_timer # {}
    /\ \A r \in search_timer : r > 0
    /\ search_timer' = {IF r > TimerStepMs THEN r - TimerStepMs ELSE 0 : r \in search_timer}
    /\ quiet_ms' = Min(quiet_ms + TimerStepMs, search_delay_ms)
    /\ UNCHANGED <<phase, pandas_na_as_text, folder, now, history_file, history, last_query,
                   search_edit, df, current_file, column_mapping, stocks_df, stores,
                   current_stocks_file, showing_stocks, tree, results, msgbox, raised,
                   search_outcome, auto_load_pending, confirmed_since_edit, selected,
                   stocks_panel>>

\* search_timer.timeout
SearchTimerTimeout ==
    /\ Running
    /\ \E r \in search_timer :
          /\ r = 0
          /\ search_timer' = search_timer \ {r}
    /\ search_items(search_edit)
    /\ UNCHANGED <<phase, pandas_na_as_text, folder, now, history_file, search_edit, df,
                   current_file, column_mapping, stocks_df, stores,
                   current_stocks_file, showing_stocks, auto_load_pending, quiet_ms,
                   confirmed_since_edit>>

\* search_edit.returnPressed
ReturnPressed ==
    /\ Running
    /\ search_timer' = {}
    /\ search_items(search_edit)
    /\ confirmed_since_edit' = TRUE
    /\ UNCHANGED <<phase, pandas_na_as_text, folder, now, history_file, search_edit, df,
                   current_file, column_mapping, stocks_df, stores,
                   current_stocks_file, showing_stocks, auto_load_pending, quiet_ms>>

\* a quick-search button that stops the pending debounce as Enter does
SetSearchTextStoppingTimer(t) ==
    /\ Running
    /\ search_edit' = t
    /\ search_timer' = {}
    /\ search_items(t)
    /\ UNCHANGED <<phase, pandas_na_as_text, folder, now, history_file, df,
                   current_file, column_mapping, stocks_df, stores,
                   current_stocks_file, showing_stocks, auto_load_pending, quiet_ms,
                   confirmed_since_edit>>

\* a quick-search button: set_search_text(t)
SetSearchText(t) ==
    /\ Running
    /\ search_edit' = t
    /\ search_items(t)
    /\ UNCHANGED <<phase, pandas_na_as_text, folder, now, history_file, search_timer, df,
                   current_file, column_mapping, stocks_df, stores,
                   current_stocks_file, showing_stocks, auto_load_pending, quiet_ms,
                   confirmed_since_edit>>

\* the history menu's paste: paste_into_search_from_clipboard
PasteIntoSearch(t) ==
    /\ Running
    /\ ~showing_stocks
    /\ t # <<>>
    /\ search_edit' = t
    /\ search_items(t)
    /\ UNCHANGED <<phase, pandas_na_as_text, folder, now, history_file, search_timer, df,
                   current_file, column_mapping, stocks_df, stores,
                   current_stocks_file, showing_stocks, auto_load_pending, quiet_ms,
                   confirmed_since_edit>>

\* the history menu's clear: clear_history
ClearHistory ==
    /\ Running
    /\ ~showing_stocks
    /\ history_file' = save_history(<<>>, now)
    /\ history' = log_action(<<>>, Message("history_cleared", <<>>, <<>>, 0), now)
    /\ msgbox' = {}
    /\ raised' = FALSE
    /\ UNCHANGED <<search_outcome, selected, stocks_panel>>
    /\ UNCHANGED <<phase, pandas_na_as_text, folder, now, last_query, search_edit,
                   search_timer, df, current_file, column_mapping, stocks_df, stores,
                   current_stocks_file, showing_stocks, tree, results,
                   auto_load_pending, quiet_ms, confirmed_since_edit>>

ToggleHistoryStocks ==
    /\ Running
    /\ showing_stocks' = ~showing_stocks
    /\ msgbox' = {}
    /\ raised' = FALSE
    /\ stocks_panel' = IF ~showing_stocks
                       THEN update_stocks_display(stocks_df, stores, tree, selected,
                                                  pandas_na_as_text)
                       ELSE stocks_panel
    /\ UNCHANGED <<search_outcome, selected>>
    /\ UNCHANGED <<phase, pandas_na_as_text, folder, now, history_file, history, last_query,
                   search_edit, search_timer, df, current_file, column_mapping,
                   stocks_df, stores, current_stocks_file, tree, results,
                   auto_load_pending, quiet_ms, confirmed_since_edit>>

\* a click on the item i of the tree: the item is selected, and
\* on_tree_item_clicked updates the stock panel when it is shown
TreeItemClicked(i) ==
    /\ Running
    /\ i \in 1..Len(tree)
    /\ selected' = i
    /\ stocks_panel' = IF showing_stocks
                       THEN update_stocks_display(stocks_df, stores, tree, i,
                                                  pandas_na_as_text)
                       ELSE stocks_panel
    /\ msgbox' = {}
    /\ raised' = FALSE
    /\ UNCHANGED <<phase, pandas_na_as_text, folder, now, history_file, history, last_query,
                   search_edit, search_timer, df, current_file, column_mapping,
                   stocks_df, stores, current_stocks_file, showing_stocks, tree,
                   results, search_outcome, auto_load_pending, quiet_ms,
                   confirmed_since_edit>>

\* the "Облік" button: import_excel with the file the dialog returned
ImportExcelWith(path, content) ==
    /\ Running
    /\ \E r \in {load_file(path, content, df, current_file,
                           column_mapping, tree)} :
           /\ df' = r.df
           /\ current_file' = r.current_file
           /\ column_mapping' = r.column_mapping
           /\ tree' = r.tree
           /\ results' = IF content = Unreadable THEN results
                        ELSE AllRows(r.df)
           /\ history' = IF r.raised THEN history
                         ELSE log_action(history,
                                  Message("imported", <<>>, <<>>, Len(r.df.rows)), now)
           /\ msgbox' = IF r.raised THEN {"read_error"} ELSE {}
    /\ raised' = FALSE
    /\ selected' = IF content = Unreadable THEN selected ELSE 0
    /\ UNCHANGED <<search_outcome, stocks_panel>>
    /\ UNCHANGED <<phase, pandas_na_as_text, folder, now, history_file, last_query,
                   search_edit, search_timer, stocks_df, stores, current_stocks_file,
                   showing_stocks, auto_load_pending, quiet_ms, confirmed_since_edit>>

ImportExcel(path) == ImportExcelWith(path, AccountingFiles[path])

\* what load_stocks_file and its caller write to the history; the caller's
\* success entry names len(self.stores)
StocksLog(r, success_kind, error_kind, path) ==
    CASE r.outcome = "ok" ->
            <<Message("stocks_loaded", <<>>, <<>>, Len(r.stores)),
              Message(success_kind, <<>>, <<>>,
                      IF success_kind = "stocks_imported" THEN Len(r.stores) ELSE path)>>
      [] r.outcome = "no_header" ->
            <<Message(success_kind, <<>>, <<>>,
                      IF success_kind = "stocks_imported" THEN Len(r.stores) ELSE path)>>
      [] OTHER ->
            IF error_kind = "" THEN <<>>
            ELSE <<Message(error_kind, <<>>, <<>>, path)>>

\* the "Залишки" button: import_stocks with the file the dialog returned
ImportStocksWith(path, content) ==
    /\ Running
    /\ \E r \in {load_stocks_file(path, content, stores, stocks_df,
                                  current_stocks_file)} :
           /\ stores' = r.stores
           /\ stocks_df' = r.stocks_df
           /\ current_stocks_file' = r.current_stocks_file
           /\ history' = LogAll(history, StocksLog(r, "stocks_imported", "", path), now)
           /\ stocks_panel' =
                 IF showing_stocks /\ r.outcome \in {"ok", "no_header"}
                 THEN update_stocks_display(r.stocks_df, r.stores, tree, selected,
                                            pandas_na_as_text)
                 ELSE stocks_panel
           /\ msgbox' = CASE r.outcome = "ok" -> {}
                          [] r.outcome = "no_header" -> {"stocks_warning"}
                          [] OTHER -> {"stocks_error"}
    /\ raised' = FALSE
    /\ UNCHANGED <<search_outcome, selected>>
    /\ UNCHANGED <<phase, pandas_na_as_text, folder, now, history_file, last_query,
                   search_edit, search_timer, df, current_file, column_mapping,
                   showing_stocks, tree, results, auto_load_pending, quiet_ms,
                   confirmed_since_edit>>

ImportStocks(path) == ImportStocksWith(path, StockFiles[path])

\* what auto_load_accounting_file writes to the history
AccountingLog(acc, load_raised) ==
    IF acc = 0 THEN <<Message("no_accounting_files", <<>>, <<>>, 0)>>
    ELSE IF load_raised THEN <<Message("load_error", <<>>, <<>>, acc)>>
    ELSE <<Message("auto_loaded", <<>>, <<>>, acc)>>

\* auto_load_files, 150 ms after construction: acc and st are the files
\* get_latest_file picked among the candidates found, 0 when none was
\* found, content is what read_excel_any reads from acc
AutoLoadWith(acc, content, st) ==
    /\ Running
    /\ auto_load_pending
    /\ auto_load_pending' = FALSE
    /\ \E a \in {IF acc = 0
                 THEN [raised |-> FALSE, df |-> df, current_file |-> current_file,
                       column_mapping |-> column_mapping, tree |-> tree]
                 ELSE load_file(acc, content, df, current_file,
                                column_mapping, tree)},
          r \in {IF st = 0
                 THEN [outcome |-> "none", stores |-> stores, stocks_df |-> stocks_df,
                       current_stocks_file |-> current_stocks_file]
                 ELSE load_stocks_file(st, StockFiles[st], stores, stocks_df,
                                       current_stocks_file)} :
           /\ df' = a.df
           /\ current_file' = a.current_file
           /\ column_mapping' = a.column_mapping
           /\ tree' = a.tree
           /\ results' = IF acc = 0 \/ content = Unreadable THEN results
                        ELSE AllRows(a.df)
           /\ stores' = r.stores
           /\ stocks_df' = r.stocks_df
           /\ current_stocks_file' = r.current_stocks_file
           /\ history' = LogAll(history,
                                 AccountingLog(acc, a.raised)
                                 \o (IF st = 0 THEN <<>>
                                     ELSE StocksLog(r, "auto_loaded_stocks",
                                                    "stocks_load_error", st)),
                                 now)
           /\ msgbox' = (IF acc # 0 /\ a.raised THEN {"read_error"} ELSE {})
                        \cup (IF r.outcome = "no_header" THEN {"stocks_warning"} ELSE {})
    /\ raised' = FALSE
    /\ selected' = IF acc = 0 \/ content = Unreadable THEN selected ELSE 0
    /\ UNCHANGED <<search_outcome, stocks_panel>>
    /\ UNCHANGED <<phase, pandas_na_as_text, folder, now, history_file, last_query,
                   search_edit, search_timer, showing_stocks, quiet_ms,
                   confirmed_since_edit>>

AutoLoadFiles(acc, st) ==
    AutoLoadWith(acc, IF acc = 0 THEN Unreadable ELSE AccountingFiles[acc], st)

\* list(dict.fromkeys(candidates)): the first occurrence of each name
Unique(files) ==
    LET F[i \in 0..Len(files)] ==
            IF i = 0 THEN <<>>
            ELSE IF \E k \in 1..(i - 1) : files[k] = files[i] THEN F[i - 1]
            ELSE Append(F[i - 1], files[i])
    IN  F[Len(files)]

\* the position of the first occurrence of the name in files
IndexOf(files, name) ==
    CHOOSE i \in 1..Len(files) : files[i] = name /\ \A k \in 1..(i - 1) : files[k] # name

\* latest of auto_load_accounting_file as a position in files, 0 when there
\* is no candidate
LatestOf(files, candidates) ==
    IF candidates = <<>> THEN 0
    ELSE IndexOf(files, candidates[get_latest_file(candidates, CurrentYear)])

\* candidates of auto_load_accounting_file, files being what the globs of
\* the one directory that holds accounting files return
Candidates(files) == Unique(find_accounting_files(files))

\* auto_load_files when the globs return the names of folder, every one a
\* readable accounting sheet, and no stock file is found; the path of a file
\* is its position in folder
AutoLoadFound ==
    AutoLoadWith(LatestOf(folder, Candidates(folder)), GoodAccounting, 0)

\* show_column_mapping_dialog accepted with the mapping m
ShowColumnMappingDialog(m) ==
    /\ Running
    /\ m # column_mapping
    /\ column_mapping' = m
    /\ \E fails \in {df # NoDf /\ ShowRaises(df, m)} :
           /\ tree' = IF df = NoDf THEN tree ELSE show_results(df, m)
           /\ results' = IF df = NoDf THEN results ELSE AllRows(df)
           /\ history' = IF fails THEN history
                         ELSE log_action(history,
                                  Message("mapping_updated", <<>>, <<>>, 0), now)
           /\ msgbox' = IF fails THEN {"mapping_error"} ELSE {}
    /\ raised' = FALSE
    /\ selected' = IF df = NoDf THEN selected ELSE 0
    /\ UNCHANGED <<search_outcome, stocks_panel>>
    /\ UNCHANGED <<phase, pandas_na_as_text, folder, now, history_file, last_query,
                   search_edit, search_timer, df, current_file, stocks_df, stores,
                   current_stocks_file, showing_stocks, auto_load_pending, quiet_ms,
                   confirmed_since_edit>>

\* closeEvent: the history is saved and the process ends
CloseEvent ==
    /\ Running
    /\ phase' = "closed"
    /\ history_file' = save_history(history, now)
    /\ msgbox' = {}
    /\ raised' = FALSE
    /\ UNCHANGED <<search_outcome, selected, stocks_panel>>
    /\ UNCHANGED <<pandas_na_as_text, folder, now, history, last_query, search_edit,
                   search_timer, df, current_file, column_mapping, stocks_df, stores,
                   current_stocks_file, showing_stocks, tree, results,
                   auto_load_pending, quiet_ms, confirmed_since_edit>>

\* the fields as __init__ sets them, load_history included
Constructed(file, t) ==
    /\ phase' = "running"
    /\ history' = load_history(<<>>, file, t)
    /\ last_query' = NoQuery
    /\ search_edit' = <<>>
    /\ search_timer' = {}
    /\ df' = NoDf
    /\ current_file' = 0
    /\ column_mapping' = InitialMapping
    /\ stocks_df' = NoStocks
    /\ stores' = <<>>
    /\ current_stocks_file' = 0
    /\ showing_stocks' = FALSE
    /\ tree' = <<>>
    /\ results' = <<>>
    /\ msgbox' = {}
    /\ raised' = FALSE
    /\ search_outcome' = "none"
    /\ auto_load_pending' = TRUE
    /\ quiet_ms' = 0
    /\ confirmed_since_edit' = FALSE
    /\ selected' = 0
    /\ stocks_panel' = EmptyPanel

\* the program is started again: main() builds a new NomenklaturaApp
Launch ==
    /\ phase = "closed"
    /\ Constructed(history_file, now)
    /\ UNCHANGED <<pandas_na_as_text, folder, now, history_file>>

\* the wall clock advances by d ticks
AdvanceClock(d) ==
    /\ now' = now + d
    /\ UNCHANGED <<phase, pandas_na_as_text, folder, history_file, history, last_query,
                   search_edit, search_timer, df, current_file, column_mapping,
                   stocks_df, stores, current_stocks_file, showing_stocks, tree,
                   results, msgbox, raised, search_outcome, auto_load_pending,
                   quiet_ms, confirmed_since_edit, selected, stocks_panel>>

\* the state after __init__, whatever the folders hold
InitApp ==
    /\ pandas_na_as_text \in BOOLEAN
    /\ now = 0
    /\ history_file = NoFile
    /\ phase = "running"
    /\ history = load_history(<<>>, NoFile, 0)
    /\ last_query = NoQuery
    /\ search_edit = <<>>
    /\ search_timer = {}
    /\ df = NoDf
    /\ current_file = 0
    /\ column_mapping = InitialMapping
    /\ stocks_df = NoStocks
    /\ stores = <<>>
    /\ current_stocks_file = 0
    /\ showing_stocks = FALSE
    /\ tree = <<>>
    /\ results = <<>>
    /\ msgbox = {}
    /\ raised = FALSE
    /\ search_outcome = "none"
    /\ auto_load_pending = TRUE
    /\ quiet_ms = 0
    /\ confirmed_since_edit = FALSE
    /\ selected = 0
    /\ stocks_panel = EmptyPanel

\* the folders hold no accounting workbook the model follows by name: the
\* file auto_load_files picks is an input of AutoLoadFiles
Init ==
    /\ InitApp
    /\ folder = <<>>

----------------------------------------------------------------------------
(* Specifications.  The bounds of the model are guards of the next-state   *)
(* relations: the handlers that write to the history run while it holds    *)
(* fewer than MaxHistory entries, the clock runs up to MaxClockDays days.  *)

LogRoom == Len(history) < MaxHistory

ClockRoom(d) ==
    IF d = 1 THEN now % DayTicks < MaxClockTicks
             ELSE now \div DayTicks < MaxClockDays

\* a handler that runs search_items
SearchStep ==
    \/ SearchTimerTimeout
    \/ ReturnPressed
    \/ \E t \in quick_texts : SetSearchText(t)
    \/ \E t \in ClipboardTexts : PasteIntoSearch(t)

\* the session: searches, the debounce timer, the history, accounting files
Next ==
    \/ \E t \in TypedTexts : TextEdited(t)
    \/ TimerElapse
    \/ LogRoom /\ SearchTimerTimeout
    \/ LogRoom /\ ReturnPressed
    \/ \E t \in quick_texts : LogRoom /\ SetSearchText(t)
    \/ \E t \in ClipboardTexts : LogRoom /\ PasteIntoSearch(t)
    \/ ClearHistory
    \/ \E p \in 1..Len(AccountingFiles) : LogRoom /\ ImportExcel(p)
    \/ \E acc \in 0..1 : AutoLoadFiles(acc, 0)

Spec == Init /\ [][Next]_vars

\* retention: the clock, closing the program and starting it again
NextRetention ==
    \/ \E d \in {1, DayTicks} : ClockRoom(d) /\ AdvanceClock(d)
    \/ CloseEvent
    \/ LogRoom /\ Launch
    \/ ClearHistory
    \/ \E acc \in 0..1 : AutoLoadFiles(acc, 0)
    \/ LogRoom /\ ImportExcel(1)

SpecRetention == Init /\ [][NextRetention]_vars

\* stock files
NextStocks ==
    \/ \E p \in 1..Len(StockFiles) : LogRoom /\ ImportStocks(p)
    \/ \E acc \in 0..1, st \in 0..Len(StockFiles) : AutoLoadFiles(acc, st)
    \/ ToggleHistoryStocks
    \/ ClearHistory

SpecStocks == Init /\ [][NextStocks]_vars

----------------------------------------------------------------------------
(* The history at its cap: the program starts on a history file an        *)
(* earlier run wrote, and one handler after the other adds an entry.       *)

MaxCapDays == 1

\* the file save_history wrote after n imports in the minute 0
CapFile(n) ==
    [exists |-> TRUE, json |-> "list",
     entries |-> [i \in 1..n |-> Entry(0, Message("imported", <<>>, <<>>, 2))]]

CapFiles == {NoFile, CapFile(HistoryCap - 1), CapFile(HistoryCap)}

\* the program is started on the day the file was written or on a later day
InitCap ==
    /\ pandas_na_as_text = TRUE
    /\ folder = <<>>
    /\ now \in {d * DayTicks : d \in 0..MaxCapDays}
    /\ history_file \in CapFiles
    /\ phase = "running"
    /\ history = load_history(<<>>, history_file, now)
    /\ last_query = NoQuery
    /\ search_edit = <<>>
    /\ search_timer = {}
    /\ df = NoDf
    /\ current_file = 0
    /\ column_mapping = InitialMapping
    /\ stocks_df = NoStocks
    /\ stores = <<>>
    /\ current_stocks_file = 0
    /\ showing_stocks = FALSE
    /\ tree = <<>>
    /\ results = <<>>
    /\ msgbox = {}
    /\ raised = FALSE
    /\ search_outcome = "none"
    /\ auto_load_pending = TRUE
    /\ quiet_ms = 0
    /\ confirmed_since_edit = FALSE
    /\ selected = 0
    /\ stocks_panel = EmptyPanel

NextCap ==
    \/ ImportExcel(1)
    \/ \E t \in quick_texts : SetSearchText(t)
    \/ ClearHistory

SpecCap == InitCap /\ [][NextCap]_vars

----------------------------------------------------------------------------
(* The search as a function: tables, mappings and query texts drawn from   *)
(* bounded sets, and the search run on them.                               *)

MaxRows == 2

SearchRow(name, code, article) ==
    <<name, NaN, NaN, NaN, FloatCell(4), FloatCell(11), article, code>>

SearchRows ==
    {SearchRow(name, code, article) :
        name \in {Text(<<"a", "B">>), NaN},
        code \in {FloatCell(24), Text(<<"b">>), Text(<<"1", ".", "0", "5", ".", "0">>),
                  Text(<<"2", ".", "0", "5">>)},
        article \in {NaN, Text(<<"n", "1">>)}}

RECURSIVE SeqsUpTo(_, _)
SeqsUpTo(S, n) ==
    IF n = 0 THEN {<<>>}
    ELSE SeqsUpTo(S, n - 1)
         \cup {Append(q, x) : q \in {r \in SeqsUpTo(S, n - 1) : Len(r) = n - 1}, x \in S}

SearchTables == {Frame(8, rows) : rows \in SeqsUpTo(SearchRows, MaxRows)}

\* the second mapping points past the last column of the 8-column tables
SearchMappings == {InitialMapping, MappingAt(1)}

SearchTexts == {<<>>, <<" ">>, <<"a">>, <<"A", "b">>, <<"n">>, <<"1">>,
                <<"b", " ">>, <<".", "0">>}

InitSearch ==
    /\ pandas_na_as_text \in BOOLEAN
    /\ folder = <<>>
    /\ now = 0
    /\ history_file = NoFile
    /\ phase = "running"
    /\ history = load_history(<<>>, NoFile, 0)
    /\ last_query = NoQuery
    /\ search_edit \in SearchTexts
    /\ search_timer = {}
    /\ df \in SearchTables
    /\ current_file = 1
    /\ column_mapping \in SearchMappings
    /\ stocks_df = NoStocks
    /\ stores = <<>>
    /\ current_stocks_file = 0
    /\ showing_stocks = FALSE
    /\ tree = show_results(df, column_mapping)
    /\ results = AllRows(df)
    /\ msgbox = {}
    /\ raised = FALSE
    /\ search_outcome = "none"
    /\ auto_load_pending = FALSE
    /\ quiet_ms = 0
    /\ confirmed_since_edit = FALSE
    /\ selected = 0
    /\ stocks_panel = EmptyPanel

NextSearch == ReturnPressed

SpecSearch == InitSearch /\ [][NextSearch]_vars

----------------------------------------------------------------------------
(* The display of a table: price and profit cells of every kind, and the   *)
(* mapping changed through the dialog or replaced by a reload.             *)

DisplayRowOf(purchase, profit, price) ==
    <<Text(<<"a">>), purchase, NaN, NaN, profit, price, NaN, IntCell(7)>>

DisplayRows ==
    {DisplayRowOf(purchase, profit, price) :
        purchase \in {NaN, IntCell(9)},
        profit \in {IntCell(2), NaN, Text(<<"x">>)},
        price \in {FloatCell(5), NaN, Text(<<"x">>), Text(<<"1", "2">>)}}

DisplayTables == {Frame(8, rows) : rows \in SeqsUpTo(DisplayRows, MaxRows) \ {<<>>}}

\* what the dialog is accepted with: Purchase moved inside and outside the
\* grid, Price moved, Code moved outside the grid
DisplayMappings ==
    DialogMappings \cup {InitialMapping,
                         [InitialMapping EXCEPT !.Purchase = 9],
                         [InitialMapping EXCEPT !.Price = 1]}

InitDisplay ==
    /\ pandas_na_as_text = TRUE
    /\ folder = <<>>
    /\ now = 0
    /\ history_file = NoFile
    /\ phase = "running"
    /\ history = load_history(<<>>, NoFile, 0)
    /\ last_query = NoQuery
    /\ search_edit = <<>>
    /\ search_timer = {}
    /\ df \in DisplayTables
    /\ current_file = 1
    /\ column_mapping = InitialMapping
    /\ stocks_df = NoStocks
    /\ stores = <<>>
    /\ current_stocks_file = 0
    /\ showing_stocks = FALSE
    /\ tree = show_results(df, column_mapping)
    /\ results = AllRows(df)
    /\ msgbox = {}
    /\ raised = FALSE
    /\ search_outcome = "none"
    /\ auto_load_pending = FALSE
    /\ quiet_ms = 0
    /\ confirmed_since_edit = FALSE
    /\ selected = 0
    /\ stocks_panel = EmptyPanel

NextDisplay ==
    \/ \E m \in DisplayMappings : LogRoom /\ ShowColumnMappingDialog(m)
    \/ LogRoom /\ ImportExcel(1)
    \/ ReturnPressed

SpecDisplay == InitDisplay /\ [][NextDisplay]_vars

----------------------------------------------------------------------------
(* The stock panel: an accounting table on display, stock tables drawn     *)
(* from bounded sets, and the user clicking rows of the tree.              *)

MaxStockRecords == 2

MaxStores == 5

\* the stores s1, s2, ...
StoreListOf(n) == [i \in 1..n |-> <<"s">> \o NatStr(i)]

ResolverRow(name, article) ==
    <<name, NaN, NaN, NaN, IntCell(1), IntCell(3), article, IntCell(7)>>

\* the rows the user selects: names with and without surrounding blanks,
\* an empty name, articles present, empty and blank
ResolverAccounting ==
    Frame(8, << ResolverRow(Text(<<"a">>), Text(<<"n", "1">>)),
                ResolverRow(Text(<<"a", " ">>), NaN),
                ResolverRow(NaN, Text(<<"n", "2">>)),
                ResolverRow(Text(<<"c">>), NaN),
                ResolverRow(Text(<<"c">>), Text(<<" ">>)),
                ResolverRow(Text(<<"c">>), Text(<<"n", "1">>)) >>)

\* stock records as load_stocks_file keeps them: never both cells empty
ResolverRecords ==
    {[Article |-> article, Name |-> name,
      qty |-> [i \in 1..MaxStores |-> i % 2]] :
        article \in {Text(<<"n", "1">>), Text(<<"n", "1", " ">>), NaN},
        name \in {Text(<<"a">>), Text(<<" ", "a">>), Text(<<"b">>), NaN}}
    \ {[Article |-> NaN, Name |-> NaN, qty |-> [i \in 1..MaxStores |-> i % 2]]}

\* one record with every combination of stores in and out of stock
ColumnRecords ==
    {[Article |-> Text(<<"n", "1">>), Name |-> Text(<<"a">>), qty |-> q] :
        q \in [1..MaxStores -> {0, 3}]}

StockTableOf(records) ==
    [cols |-> StoreListOf(MaxStores), rows |-> records, loaded |-> TRUE]

ResolverTables ==
    {StockTableOf(records) : records \in SeqsUpTo(ResolverRecords, MaxStockRecords)}
    \cup {StockTableOf(<<r>>) : r \in ColumnRecords}

InitResolver ==
    /\ pandas_na_as_text \in BOOLEAN
    /\ folder = <<>>
    /\ now = 0
    /\ history_file = NoFile
    /\ phase = "running"
    /\ history = load_history(<<>>, NoFile, 0)
    /\ last_query = NoQuery
    /\ search_edit = <<>>
    /\ search_timer = {}
    /\ df = ResolverAccounting
    /\ current_file = 1
    /\ column_mapping = InitialMapping
    /\ stocks_df \in ResolverTables
    /\ stores = stocks_df.cols
    /\ current_stocks_file = 1
    /\ showing_stocks = FALSE
    /\ tree = show_results(df, column_mapping)
    /\ results = AllRows(df)
    /\ msgbox = {}
    /\ raised = FALSE
    /\ search_outcome = "none"
    /\ auto_load_pending = FALSE
    /\ quiet_ms = 0
    /\ confirmed_since_edit = FALSE
    /\ selected = 0
    /\ stocks_panel = EmptyPanel

ItemClicked == \E i \in 1..Len(tree) : TreeItemClicked(i)

NextResolver ==
    \/ ItemClicked
    \/ ToggleHistoryStocks
    \/ ReturnPressed

SpecResolver == InitResolver /\ [][NextResolver]_vars

----------------------------------------------------------------------------
(* File discovery at start-up: the names the globs return are drawn from  *)
(* a catalog, auto_load_files picks and loads one, the user then searches  *)
(* and clears the log.                                                     *)

MaxFiles == 2

Ext == <<".", "x">>

\* names with a full date, a date without year, a date followed by a
\* blank, dashes, no date, the Latin word, impossible dates, the lower-case
\* word, and two names of one date
FileNames ==
    {<<"Oblik", " ", "1", "2", ".", "0", "5", ".", "2", "0", "2", "4">> \o Ext,
     <<"Oblik", " ", "1", "2", ".", "0", "5">> \o Ext,
     <<"Oblik", " ", "1", "2", ".", "0", "5", " ", "v">> \o Ext,
     <<"Oblik", " ", "3", "-", "4", "-", "2", "4">> \o Ext,
     <<"Oblik">> \o Ext,
     <<"OBLIK", " ", "3", "1", ".", "1", "2", ".", "2", "0", "2", "5">> \o Ext,
     <<"Oblik", "_", "1", "3", ".", "1", "3", ".", "2", "4">> \o Ext,
     <<"Oblik", " ", "2", "9", ",", "2", ",", "2", "3">> \o Ext,
     <<"Oblik", " ", "2", "9", ".", "2", ".", "2", "4">> \o Ext,
     <<"oblik", "1", ".", "2", ".", "2", "5">> \o Ext,
     <<"Oblik", " ", "1", "2", ".", "0", "5", ".", "2", "0", "2", "4", " ", "v">> \o Ext}

Listings == SeqsUpTo(FileNames, MaxFiles)

InitFiles ==
    /\ InitApp
    /\ folder \in Listings

NextFiles ==
    \/ AutoLoadFound
    \/ LogRoom /\ ReturnPressed
    \/ ClearHistory

SpecFiles == InitFiles /\ [][NextFiles]_vars

----------------------------------------------------------------------------
(* Column mapping on load: sheets whose data starts in another column, or  *)
(* below the rows load_file looks at, are imported, and the mapping dialog *)
(* is used between the imports.                                            *)

MaxShift == 2

SheetWidth == MaxShift + 8

\* a row of an accounting sheet with shift empty columns before the Name
ShiftedRow(shift) ==
    [c \in 1..SheetWidth |->
        CASE c = shift + 1 -> Text(<<"a">>)
          [] c = shift + 5 -> IntCell(2)
          [] c = shift + 6 -> IntCell(5)
          [] c = shift + 8 -> IntCell(7)
          [] OTHER -> NaN]

BlankRow == [c \in 1..SheetWidth |-> NaN]

BlankRows(n) == [r \in 1..n |-> BlankRow]

ShiftedRows == {ShiftedRow(shift) : shift \in 0..MaxShift} \cup {BlankRow}

\* no blank row above the data, data ending in row ScanRows, data starting
\* below row ScanRows
BlankRowsAbove == {0, ScanRows - 1, ScanRows}

ShiftedTables ==
    {Frame(SheetWidth, BlankRows(n) \o rows) :
        n \in BlankRowsAbove, rows \in SeqsUpTo(ShiftedRows, MaxRows) \ {<<>>}}

\* import_excel with a sheet of the catalog
ImportSheet(content) == ImportExcelWith(1, content)

NextMapping ==
    \/ \E content \in ShiftedTables : LogRoom /\ ImportSheet(content)
    \/ \E m \in DialogMappings : LogRoom /\ ShowColumnMappingDialog(m)
    \/ ClearHistory

SpecMapping == Init /\ [][NextMapping]_vars

----------------------------------------------------------------------------
(* Stock sheet layout: sheets with the store-header row at different rows, *)
(* the Article column at different columns and store headers that are     *)
(* blank, empty, the total, repeated or padded are imported one after the  *)
(* other.                                                                  *)

MaxStoreColumns == 3

\* the header row: a empty columns, the labels of Article and Name, the
\* store headers
SheetHeader(a, headers) ==
    [c \in 1..a |-> NaN] \o <<Text(<<"n">>), Text(<<"m">>)>> \o headers

\* a data row: a empty columns, Article, Name, the quantity cells
SheetData(a, article, name, cells) ==
    [c \in 1..a |-> NaN] \o <<article, name>> \o cells

\* a row above the header, r-th of the sheet: many cells and no store
\* marker in the first row, a store marker among too few cells below it
RowAbove(r, width) ==
    [c \in 1..width |->
        IF r = 1 THEN (IF c < width THEN Text(<<"t">>) ELSE NaN)
        ELSE (IF c = 1 THEN Text(<<"a", "a", "a">>) ELSE NaN)]

\* the quantity cells of the data rows: whole, fractional, text, empty
QuantityRows ==
    << <<IntCell(2), FloatCell(7), Text(<<"x">>)>>,
       <<NaN, IntCell(0), IntCell(4)>> >>

\* above rows, then the header, the row under it, two data rows and a row
\* without Article and Name
StockSheet(above, a, headers) ==
    Frame(a + 2 + Len(headers),
          [r \in 1..above |-> RowAbove(r, a + 2 + Len(headers))]
          \o <<SheetHeader(a, headers),
               [c \in 1..(a + 2 + Len(headers)) |-> NaN],
               SheetData(a, Text(<<"n", "1">>), Text(<<"a">>),
                         SubSeq(QuantityRows[1], 1, Len(headers))),
               SheetData(a, NaN, NaN, SubSeq(QuantityRows[2], 1, Len(headers))),
               SheetData(a, NaN, Text(<<"b">>),
                         SubSeq(QuantityRows[2], 1, Len(headers)))>>)

Arsen == Text(<<"A", "r", "s", "e", "n">>)

Total == Text(<<"I", "t", "o", "g">>)

Padded == Text(<<" ", "A", "R", "S", "E", "N", " ">>)

\* the store headers of the catalog: two names, a blank text, an empty cell
\* and the total
StoreHeaders == <<Arsen, Text(<<"b">>), Text(<<" ">>), NaN, Total>>

RECURSIVE Power(_, _)
Power(b, n) == IF n = 0 THEN 1 ELSE b * Power(b, n - 1)

HeaderTuples == Power(Len(StoreHeaders), MaxStoreColumns)

\* the k-th tuple of MaxStoreColumns store headers, k from 0
HeaderTuple(k) ==
    [i \in 1..MaxStoreColumns |->
        StoreHeaders[((k \div Power(Len(StoreHeaders), MaxStoreColumns - i))
                      % Len(StoreHeaders)) + 1]]

\* a plain header, a padded name in capitals as the only marker, a blank
\* header and the total between two stores
PlainHeaders == <<Arsen, Text(<<"b">>), Total>>

SpecialHeaders ==
    <<PlainHeaders, <<Text(<<"c">>), Padded, Text(<<"b">>)>>,
      <<Arsen, Text(<<" ">>), Text(<<"b">>)>>, <<Arsen, Total, Text(<<"b">>)>> >>

\* the rows above the header: none, 3, 14 (the header is the last row
\* scanned) and 15
RowsAbove == <<3, HeaderScanRows - 1, HeaderScanRows>>

\* the files of the catalog, the path of a sheet being its position: every
\* tuple of store headers with the header in row 0 and the Article in
\* column 0, the special headers with the Article in column 1, the plain
\* header below other rows
StockSheetFiles ==
    [p \in 1..HeaderTuples |-> StockSheet(0, 0, HeaderTuple(p - 1))]
    \o [k \in 1..Len(SpecialHeaders) |-> StockSheet(0, 1, SpecialHeaders[k])]
    \o [k \in 1..Len(RowsAbove) |-> StockSheet(RowsAbove[k], 0, PlainHeaders)]

\* import_stocks with a sheet of the catalog
ImportStockSheet(path) == ImportStocksWith(path, StockSheetFiles[path])

InitLayout ==
    /\ Init
    /\ pandas_na_as_text

NextLayout ==
    \E p \in 1..Len(StockSheetFiles) : LogRoom /\ ImportStockSheet(p)

SpecLayout == InitLayout /\ [][NextLayout]_vars

----------------------------------------------------------------------------
(* The history file at start-up: the program is started on a file that an  *)
(* earlier run or something else has written, used, closed and started    *)
(* again.                                                                  *)

\* the file was written on day 0; the entries of minute 0 are older than
\* the retention on day RetentionDays
FileEntry(kind) == Entry(0, Message(kind, <<>>, <<>>, 2))

BadItem == [FileEntry("imported") EXCEPT !.ts = NoTimestamp]

FileOf(json, entries) == [exists |-> TRUE, json |-> json, entries |-> entries]

\* no file, files that are no JSON or no list, lists with and without an
\* item that has no timestamp, a JSON object whose keys are entries
HistoryFiles ==
    {NoFile,
     FileOf("invalid", <<>>),
     FileOf("scalar", <<>>),
     FileOf("list", <<>>),
     FileOf("list", <<FileEntry("imported")>>),
     FileOf("list", <<FileEntry("mapping_updated"), FileEntry("imported")>>),
     FileOf("list", <<BadItem>>),
     FileOf("list", <<FileEntry("imported"), BadItem>>),
     FileOf("list", <<BadItem, FileEntry("mapping_updated"), FileEntry("imported")>>),
     FileOf("object", <<>>),
     FileOf("object", <<FileEntry("imported")>>),
     FileOf("object", <<FileEntry("imported"), BadItem>>)}

\* the program is not running yet
InitHistoryFile ==
    /\ pandas_na_as_text = TRUE
    /\ folder = <<>>
    /\ now \in {d * DayTicks : d \in {0, RetentionDays}}
    /\ history_file \in HistoryFiles
    /\ phase = "closed"
    /\ history = <<>>
    /\ last_query = NoQuery
    /\ search_edit = <<>>
    /\ search_timer = {}
    /\ df = NoDf
    /\ current_file = 0
    /\ column_mapping = InitialMapping
    /\ stocks_df = NoStocks
    /\ stores = <<>>
    /\ current_stocks_file = 0
    /\ showing_stocks = FALSE
    /\ tree = <<>>
    /\ results = <<>>
    /\ msgbox = {}
    /\ raised = FALSE
    /\ search_outcome = "none"
    /\ auto_load_pending = FALSE
    /\ quiet_ms = 0
    /\ confirmed_since_edit = FALSE
    /\ selected = 0
    /\ stocks_panel = EmptyPanel

NextHistoryFile ==
    \/ LogRoom /\ Launch
    \/ CloseEvent
    \/ ClearHistory
    \/ \E t \in quick_texts : LogRoom /\ SetSearchText(t)
    \/ \E d \in {DayTicks} : ClockRoom(d) /\ AdvanceClock(d)

SpecHistoryFile == InitHistoryFile /\ [][NextHistoryFile]_vars

----------------------------------------------------------------------------
(* Properties *)

\* the search entries of a history, most recent first
SearchEntries(h) == SelectSeq(h, LAMBDA e : e.kind = "search")

NoAdjacentRepeat ==
    \A i \in 1..(Len(history) - 1) :
        (history[i].kind = "search" /\ history[i + 1].kind = "search")
            => history[i].query # history[i + 1].query

\* C1: a search (timer, Enter, quick-search button or paste) whose non-empty
\* query is the query of the most recent recorded search adds no entry to
\* the history, and no two adjacent search entries carry the same query.
C1_RepeatedQueryNotRecorded ==
    /\ []NoAdjacentRepeat
    /\ [][(/\ SearchStep
           /\ Strip(search_edit') # <<>>
           /\ SearchEntries(history) # <<>>
           /\ SearchEntries(history)[1].query = Strip(search_edit'))
          => history' = history]_vars

\* a search has just repeated the query of the most recent search entry
C1_Witness ==
    /\ search_outcome = "repeat"
    /\ SearchEntries(history) # <<>>
    /\ Query(SearchEntries(history)[1].query) = last_query
    /\ Strip(search_edit) = last_query.q

\* C4: at most one debounced search is pending; an edit replaces the pending
\* timeout by a new one of the full delay, Enter cancels it, and the
\* timeout fires only after a full quiet period since the last edit in
\* which Enter was not pressed.
C4_DebounceCancelAndReplace ==
    /\ [](Cardinality(search_timer) <= 1)
    /\ [][(\E t \in TypedTexts : TextEdited(t))
             => search_timer' = {search_delay_ms}]_vars
    /\ [][ReturnPressed => search_timer' = {}]_vars
    /\ [][SearchTimerTimeout
             => /\ quiet_ms >= search_delay_ms
                /\ ~confirmed_since_edit
                /\ search_timer' = {}]_vars

\* the timeout fired after a quiet period and its search was recorded
C4_Witness ==
    /\ quiet_ms = search_delay_ms
    /\ search_timer = {}
    /\ ~confirmed_since_edit
    /\ search_outcome = "recorded"

\* C5: an import of an accounting file that ends with the error box leaves
\* the accounting table, the current file and the column mapping unchanged.
C5_FailedLoadKeepsState ==
    [][((\E p \in 1..Len(AccountingFiles) : ImportExcel(p)) /\ "read_error" \in msgbox')
          => UNCHANGED <<df, current_file, column_mapping>>]_vars

\* C7: a non-empty query searched through a mapping whose Name, Code or
\* Article index lies beyond the table's width is reported and the tree
\* then shows every row of the accounting table.
C7_FallbackShowsWholeTable ==
    [][(/\ SearchStep
        /\ df # NoDf
        /\ SearchRaises(df, column_mapping)
        /\ Strip(search_edit') # <<>>)
          => /\ "search_error" \in msgbox'
             /\ Len(tree') = Len(df.rows)]_vars

MostRecentFirst(h) == \A i \in 1..(Len(h) - 1) : h[i].ts >= h[i + 1].ts

\* C2: the in-memory history never holds more than 100 entries and is
\* ordered most-recent first; a handler that adds an entry to a history of
\* 100 puts the new entry first, keeps the 99 most recent after it in
\* their order and drops the oldest.
C2_HistoryCapped ==
    /\ [](Len(history) <= HistoryCap /\ MostRecentFirst(history))
    /\ [][(/\ ImportExcel(1) \/ SearchStep
           /\ Len(history) = HistoryCap
           /\ history' # history)
          => /\ Len(history') = HistoryCap
             /\ history'[1].ts = Timestamp(now)
             /\ SubSeq(history', 2, HistoryCap) = SubSeq(history, 1, HistoryCap - 1)]_vars

\* an import has been recorded in a full history: the 101st entry
C2_Witness ==
    /\ Len(history) = HistoryCap
    /\ history[1].kind = "imported"
    /\ history[2].kind = "history_loaded"
    /\ history[HistoryCap].kind = "imported"
    /\ history_file \in {CapFile(HistoryCap - 1), CapFile(HistoryCap)}

\* the timestamp of e is more than 2 days before the time t
Old(e, t) == ParseTimestamp(e.ts) < t - TwoDays

NoOld(h, t) == \A i \in 1..Len(h) : ~Old(h[i], t)

\* C3 as stated: after load_history and after save_history neither the
\* in-memory history nor the list written to the file holds an entry older
\* than 2 days.
C3_PurgedEverywhere ==
    [][/\ Launch => NoOld(history', now')
       /\ (CloseEvent \/ ClearHistory)
             => NoOld(history', now') /\ NoOld(history_file'.entries, now')]_vars

\* C3, amended: after load_history the in-memory history holds no entry
\* older than 2 days, and after save_history the list written to the
\* history file holds none.
C3_PurgedOnLoadAndInFile ==
    [][/\ Launch => NoOld(history', now')
       /\ (CloseEvent \/ ClearHistory) => NoOld(history_file'.entries, now')]_vars

\* the program ran for more than 2 days and was closed: the file was
\* written without the old entry the in-memory list still holds
C3_Witness ==
    /\ phase = "closed"
    /\ ~NoOld(history, now)
    /\ history_file.exists
    /\ history_file.entries # <<>>
    /\ NoOld(history_file.entries, now)

\* C6: an import of a stock file without a store-header row in its first
\* 15 rows ends in the caller's error branch, and the stock table, the
\* store list and the current stock file stay as they were.
C6_NoHeaderFailsCleanly ==
    [][\A p \in 1..Len(StockFiles) :
          (/\ ImportStocks(p)
           /\ StockFiles[p] # Unreadable
           /\ FindStoresRow(StockFiles[p]) = -1)
          => /\ "stocks_error" \in msgbox'
             /\ history' = history
             /\ UNCHANGED <<stocks_df, stores, current_stocks_file>>]_vars

StrictlyIncreasing(s) == \A i \in 1..(Len(s) - 1) : s[i] < s[i + 1]

\* C8: the rows a search returns are rows of the accounting table in their
\* original order, and the empty or all-whitespace query returns the whole
\* table.
C8_ResultIsSubsequence ==
    [][ReturnPressed
          => /\ StrictlyIncreasing(results')
             /\ \A i \in 1..Len(results') : results'[i] \in 1..Len(df.rows)
             /\ Strip(search_edit) = <<>> => results' = AllRows(df)]_vars

\* a recorded search returned the second row of the table alone
C8_Witness ==
    /\ search_outcome = "recorded"
    /\ Len(df.rows) = MaxRows
    /\ results = <<MaxRows>>

\* the text of a cell, an empty cell having the empty text
CellText(c) == IF IsNa(c) THEN <<>> ELSE CellStr(c)

HasQuery(row, mapping, q) ==
    \E i \in 1..Len(SearchFields) :
        Contains(LowerStr(CellText(Cell(row, mapping[SearchFields[i]]))), LowerStr(q))

\* C9: for a non-empty query a row is in the result of a search that did
\* not fail if and only if the text of its Name, Code or Article cell
\* contains the query, case ignored; empty cells never match.
C9_MatchIffContains ==
    [][(/\ ReturnPressed
        /\ Strip(search_edit) # <<>>
        /\ search_outcome' \in {"recorded", "repeat"})
          => \A i \in 1..Len(df.rows) :
                 (\E k \in 1..Len(results') : results'[k] = i)
                     <=> HasQuery(df.rows[i], column_mapping, Strip(search_edit))]_vars

\* C10: the rows a search returned, searched again with the same query,
\* are returned unchanged and in the same order.
C10_SearchIdempotent ==
    [][ReturnPressed
          => Search(RowsAt(df, results'), column_mapping, search_edit,
                    pandas_na_as_text) = RowsAt(df, results')]_vars

\* a recorded search dropped a row of the table and kept another
C10_Witness ==
    /\ search_outcome = "recorded"
    /\ Len(results) >= 1
    /\ Len(results) < Len(df.rows)
    /\ Search(RowsAt(df, results), column_mapping, search_edit,
              pandas_na_as_text) = RowsAt(df, results)

\* the cell holds a number: a numeric cell or a text float() reads as one
Numeric(c) ==
    \/ c.k \in {"int", "float"}
    \/ c.k = "text" /\ ParseFloat(Strip(c.s)).ok /\ ~ParseFloat(Strip(c.s)).nan

\* Price minus Profit as the tree shows numbers, blank unless both are numbers
PriceMinusProfit(row, mapping) ==
    IF Numeric(Cell(row, mapping.Price)) /\ Numeric(Cell(row, mapping.Profit))
    THEN IntStr(RoundHalfEven(ToFloat(Cell(row, mapping.Price)).twice
                              - ToFloat(Cell(row, mapping.Profit)).twice))
    ELSE <<>>

OnlyPurchaseDiffers(m1, m2) ==
    /\ m1.Purchase # m2.Purchase
    /\ \A f \in DisplayFields : m1[f] = m2[f]

\* C11: the Purchase field of every displayed row is Price minus Profit
\* when both cells are numbers and blank otherwise, and a step that changes
\* only the Purchase entry of the mapping displays what the mapping before
\* it displays.
C11_PurchaseIsPriceMinusProfit ==
    /\ [](Len(tree) = Len(results)
            => \A i \in 1..Len(tree) :
                   tree[i].Purchase = PriceMinusProfit(df.rows[results[i]], column_mapping))
    /\ [][(/\ \E m \in DisplayMappings : ShowColumnMappingDialog(m)
           /\ OnlyPurchaseDiffers(column_mapping, column_mapping'))
          => tree' = show_results(df, column_mapping)]_vars

\* the dialog moved Purchase alone, and the tree shows a row with a
\* Purchase and a row without
C11_Witness ==
    /\ OnlyPurchaseDiffers(InitialMapping, column_mapping)
    /\ history[1].kind = "mapping_updated"
    /\ \E i \in 1..Len(tree) : tree[i].Purchase = <<"1", "0">>
    /\ \E i \in 1..Len(tree) : tree[i].Purchase = <<>>

\* the text without its last two characters when it ends in ".0"
TrimSuffix(t) ==
    IF EndsWith(t, <<".", "0">>) THEN SubSeq(t, 1, Len(t) - 2) ELSE t

CodeCellText(row, mapping) == CellStr(Cell(row, mapping.Code))

\* C12: the Code of every displayed row, and the Code a recorded search
\* with one result writes to the history, is the text of the code cell
\* without its trailing ".0" and with every other character kept.
C12_CodeLosesOnlyTrailingSuffix ==
    /\ [](Len(tree) = Len(results)
            => \A i \in 1..Len(tree) :
                   tree[i].Code = TrimSuffix(CodeCellText(df.rows[results[i]], column_mapping)))
    /\ [][(/\ ReturnPressed
           /\ search_outcome' = "recorded"
           /\ Len(results') = 1
           /\ history'[1].resolved[3]
                 # CellStr(Cell(df.rows[results'[1]], column_mapping.Name)))
          => history'[1].resolved[3]
                = TrimSuffix(CodeCellText(df.rows[results'[1]], column_mapping))]_vars

\* the last part of the message of a search with one result, as C13 states
\* it: the Name when the query occurs in the text of the code cell
NameIfInCodeCell(row, mapping, q) ==
    IF Contains(LowerStr(CodeCellText(row, mapping)), LowerStr(q))
    THEN CellStr(Cell(row, mapping.Name))
    ELSE CodeText(CodeCellText(row, mapping))

\* C13: a recorded search with exactly one result writes the query, the
\* profit, the price and then the Name when the query occurs in the code
\* cell, the Code otherwise; with no or several results it writes the
\* query alone.
C13_HistoryMessage ==
    [][(ReturnPressed /\ search_outcome' = "recorded")
          => /\ history'[1].kind = "search"
             /\ history'[1].query = Strip(search_edit)
             /\ history'[1].resolved
                   = IF Len(results') = 1
                     THEN <<format_number(Cell(df.rows[results'[1]], column_mapping.Profit)),
                            format_number(Cell(df.rows[results'[1]], column_mapping.Price)),
                            NameIfInCodeCell(df.rows[results'[1]], column_mapping,
                                             Strip(search_edit))>>
                     ELSE <<>>]_vars

\* the stock records whose non-empty field cell holds the text, blanks on
\* both sides ignored
RecordsWith(field, text) ==
    {k \in 1..Len(stocks_df.rows) :
        /\ ~IsNa(stocks_df.rows[k][field])
        /\ Strip(CellStr(stocks_df.rows[k][field])) = Strip(text)}

First(S) == CHOOSE k \in S : \A j \in S : k <= j

\* a click on a row of the tree while the stock panel is shown and a stock
\* table is loaded
ResolvingClick == ItemClicked /\ showing_stocks /\ stocks_df.loaded

\* the accounting cell behind a field of the item selected after the step
SelectedCell(field) == Cell(df.rows[results[selected']], column_mapping[field])

\* C14: when a stock record's Name equals the Name of the clicked row,
\* blanks on both sides ignored, the panel shows the first such record in
\* table order, whatever the Article of the row is.
C14_NameMatchFirst ==
    [][(ResolvingClick /\ RecordsWith("Name", tree[selected'].Name) # {})
          => stocks_panel'.rec = First(RecordsWith("Name", tree[selected'].Name))]_vars

\* the clicked row's Article belongs to exactly one record, an earlier one
\* than the record of its Name, and the panel shows the record of the Name
C14_Witness ==
    /\ showing_stocks
    /\ selected # 0
    /\ stocks_panel.rec = 2
    /\ RecordsWith("Name", tree[selected].Name) = {2}
    /\ RecordsWith("Article", tree[selected].Article) = {1}

\* the record C15 resolves through the article cell
ArticleFallback(cell) ==
    IF /\ ~IsNa(cell)
       /\ Strip(CellStr(cell)) # <<>>
       /\ Cardinality(RecordsWith("Article", CellStr(cell))) = 1
    THEN First(RecordsWith("Article", CellStr(cell)))
    ELSE 0

\* C15: when the clicked row has a Name and no stock record has that Name,
\* the panel shows the one record that has the row's Article if the
\* Article cell is not empty and exactly one record has it, and no record
\* otherwise.
C15_ArticleFallback ==
    [][(/\ ResolvingClick
        /\ ~IsNa(SelectedCell("Name"))
        /\ RecordsWith("Name", tree[selected'].Name) = {})
          => stocks_panel'.rec = ArticleFallback(SelectedCell("Article"))]_vars

\* the stores of self.stores the record rec has in stock, in their order
InStock(rec) ==
    SelectSeq(stores,
              LAMBDA s : \E k \in 1..Len(stocks_df.cols) :
                             stocks_df.cols[k] = s /\ stocks_df.rows[rec].qty[k] > 0)

StoresOf(col) == [i \in 1..Len(col) |-> col[i].store]

CeilThird(n) == (n + DisplayColumns - 1) \div DisplayColumns

\* C16: the three columns of a shown record, read one after the other, are
\* the stores it has in stock in the order of the store list, and no
\* column holds more than a third of them, rounded up.
C16_ColumnsPartition ==
    [][(ResolvingClick /\ stocks_panel'.rec # 0)
          => /\ StoresOf(stocks_panel'.cols[1]) \o StoresOf(stocks_panel'.cols[2])
                   \o StoresOf(stocks_panel'.cols[3]) = InStock(stocks_panel'.rec)
             /\ \A c \in 1..DisplayColumns :
                    Len(stocks_panel'.cols[c]) <= CeilThird(Len(InStock(stocks_panel'.rec)))
             /\ stocks_panel'.kind = "stores" <=> InStock(stocks_panel'.rec) # <<>>]_vars

\* a record with every store in stock is shown: the last column is shorter
C16_Witness ==
    /\ showing_stocks
    /\ stocks_panel.kind = "stores"
    /\ Len(InStock(stocks_panel.rec)) = MaxStores
    /\ Len(stocks_panel.cols[1]) = CeilThird(MaxStores)
    /\ Len(stocks_panel.cols[3]) < Len(stocks_panel.cols[1])

\* the date get_latest_file compares the k-th candidate by
DateOfCandidate(candidates, k) ==
    DateKey(extract_date_from_filename(candidates[k], CurrentYear))

LatestFirstOfMaximal(candidates, i) ==
    IF candidates = <<>> THEN i = 0
    ELSE /\ i \in 1..Len(candidates)
         /\ \A k \in 1..Len(candidates) :
                DateOfCandidate(candidates, k) <= DateOfCandidate(candidates, i)
         /\ \A k \in 1..(i - 1) :
                DateOfCandidate(candidates, k) < DateOfCandidate(candidates, i)
         /\ DateOfCandidate(candidates, i) = DateKey(DateMin)
                => \A k \in 1..Len(candidates) :
                       DateOfCandidate(candidates, k) = DateKey(DateMin)

\* the file auto_load_files has loaded is the i-th candidate
LoadedCandidate(candidates, i) ==
    /\ LatestFirstOfMaximal(candidates, i)
    /\ current_file = IF i = 0 THEN 0 ELSE IndexOf(folder, candidates[i])

\* C17: get_latest_file returns a candidate of the maximal extracted date,
\* the first of them in the input order, a candidate without a parsable date
\* only when no candidate has one, and none for an empty list; the file
\* auto_load_files has loaded is that candidate.
C17_LatestIsFirstOfMaximalDate ==
    ~auto_load_pending =>
        \E c \in {Candidates(folder)} :
            \E i \in {get_latest_file(c, CurrentYear)} : LoadedCandidate(c, i)

\* two candidates of the same latest date, the first of them loaded
C17_Witness ==
    /\ ~auto_load_pending
    /\ Len(Candidates(folder)) = 2
    /\ DateOfCandidate(Candidates(folder), 1) = DateOfCandidate(Candidates(folder), 2)
    /\ DateOfCandidate(Candidates(folder), 1) > DateKey(DateMin)
    /\ current_file = 1
    /\ df # NoDf

\* day<sep>month at position i, whatever follows the month
DayMonthWritten(s, i, dl, ml) ==
    /\ DigitsAt(s, i, dl)
    /\ SepAt(s, i + dl, DateSeps)
    /\ DigitsAt(s, i + dl + 1, ml)

WrittenStarts(s) ==
    {i \in 1..Len(s) :
        \E k \in 1..Len(DigitSplits) :
            DayMonthWritten(s, i, DigitSplits[k].dl, DigitSplits[k].ml)}

WrittenSplit(s, i) ==
    DigitSplits[CHOOSE k \in 1..Len(DigitSplits) :
        /\ DayMonthWritten(s, i, DigitSplits[k].dl, DigitSplits[k].ml)
        /\ \A j \in 1..(k - 1) :
               ~DayMonthWritten(s, i, DigitSplits[j].dl, DigitSplits[j].ml)]

\* the year written after the month that ends before position j: -1 when
\* no <sep>year follows
WrittenYear(s, j) ==
    IF SepAt(s, j, DateSeps) /\ YearDigits(s, j + 1) > 0
    THEN DigitsVal(SubSeq(s, j + 1, j + YearDigits(s, j + 1)))
    ELSE -1

\* the calendar date written at position i of the name with the split sp
WrittenDateAt(s, i, sp, this_year) ==
    DateOf(IF WrittenYear(s, i + sp.dl + sp.ml + 1) = -1 THEN this_year
           ELSE IF WrittenYear(s, i + sp.dl + sp.ml + 1) < 100
           THEN WrittenYear(s, i + sp.dl + sp.ml + 1) + 2000
           ELSE WrittenYear(s, i + sp.dl + sp.ml + 1),
           DigitsVal(SubSeq(s, i + sp.dl + 1, i + sp.dl + sp.ml)),
           DigitsVal(SubSeq(s, i, i + sp.dl - 1)))

\* the date written in the name: the first day<sep>month, with the year
\* that follows it if one does; the sentinel without one or for an
\* impossible date
WrittenDate(s, this_year) ==
    IF WrittenStarts(s) = {} THEN DateMin
    ELSE LET i == CHOOSE i \in WrittenStarts(s) : \A j \in WrittenStarts(s) : i <= j
         IN  WrittenDateAt(s, i, WrittenSplit(s, i), this_year)

\* a day<sep>month that no separator follows
MonthEndsDate(s) ==
    /\ WrittenStarts(s) # {}
    /\ ~DateSearch(s).found

\* C18: the date extract_date_from_filename returns for a candidate of
\* auto_load_files is the date written in its name as day<sep>month with an
\* optional <sep>year, the current year for a missing year and 2000 added
\* to a year below 100, and the sentinel when no such date is written or the
\* date is impossible.
C18_ExtractsWrittenDate ==
    ~auto_load_pending =>
        \A k \in 1..Len(Candidates(folder)) :
            extract_date_from_filename(Candidates(folder)[k], CurrentYear)
                = WrittenDate(Candidates(folder)[k], CurrentYear)

\* the same for the names in which a separator follows the month
C18_ExtractsDateBeforeSeparator ==
    ~auto_load_pending =>
        \A k \in 1..Len(Candidates(folder)) :
            ~MonthEndsDate(Candidates(folder)[k]) =>
                extract_date_from_filename(Candidates(folder)[k], CurrentYear)
                    = WrittenDate(Candidates(folder)[k], CurrentYear)

\* a candidate the glob patterns match is kept by the date filter of
\* find_accounting_files as far as the filter is claimed to go: its name
\* holds a date that extract_date_from_filename recognizes
Recognizable(name) == DateSearch(name).found

\* the files find_accounting_files is claimed to return for the files the
\* glob patterns match
RecognizableOrAll(files) ==
    IF \E k \in 1..Len(files) : Recognizable(files[k])
    THEN SelectSeq(files, Recognizable)
    ELSE files

\* C19: find_accounting_files returns the pattern-matching files whose name
\* holds a date that date extraction recognizes, with '.', ',' or '-', when
\* there is one, and every pattern-matching file when there is none.
C19_KeepsRecognizableDates ==
    ~auto_load_pending =>
        find_accounting_files(folder) = RecognizableOrAll(folder)

\* the same when every name with a date has the Cyrillic word, dots or
\* commas in the date and a separator after the month
PlainName(name) == Recognizable(name) <=> HasFilterDate(name)

C19_KeepsPlainDates ==
    (~auto_load_pending /\ \A k \in 1..Len(folder) : PlainName(folder[k])) =>
        find_accounting_files(folder) = RecognizableOrAll(folder)

\* the step is a load_file that import_excel has completed
SuccessfulLoad ==
    /\ history' # history
    /\ history' # <<>>
    /\ history'[1].kind = "imported"

\* no cell of the column is filled in the first 10 rows of the grid
EmptyAtTop(d, c) ==
    \A r \in 1..Len(d.rows) : r <= 10 => IsNa(d.rows[r][c + 1])

\* the mapping has the offsets 0, 1, 4, 5, 6, 7 from the column s
OffsetsFrom(mapping, s) ==
    /\ mapping.Name = s
    /\ mapping.Purchase = s + 1
    /\ mapping.Profit = s + 4
    /\ mapping.Price = s + 5
    /\ mapping.Article = s + 6
    /\ mapping.Code = s + 7

\* s is the smallest column with a filled cell in the first 10 rows, 0 when
\* there is none
SmallestFilled(d, s) ==
    IF \A c \in 0..(d.width - 1) : EmptyAtTop(d, c) THEN s = 0
    ELSE /\ s \in 0..(d.width - 1)
         /\ ~EmptyAtTop(d, s)
         /\ \A c \in 0..(s - 1) : EmptyAtTop(d, c)

\* C20: after a successful load_file the mapping is Name=s, Purchase=s+1,
\* Profit=s+4, Price=s+5, Article=s+6, Code=s+7 for the smallest column s
\* with a non-empty cell among the first 10 rows of the loaded grid, 0 when
\* every column is empty there, whatever the mapping was before the load.
C20_MappingFollowsStartColumn ==
    [][SuccessfulLoad =>
           \E s \in 0..(df'.width - 1) :
               SmallestFilled(df', s) /\ OffsetsFrom(column_mapping', s)]_vars

\* a mapping set in the dialog has been replaced by the load of a sheet
\* whose data starts in column 2 and goes on below row 10
C20_Witness ==
    /\ Len(history) >= 2
    /\ history[1].kind = "imported"
    /\ history[2].kind = "mapping_updated"
    /\ Len(df.rows) > 10
    /\ SmallestFilled(df, 2)
    /\ OffsetsFrom(column_mapping, 2)

\* the step is a load_stocks_file that import_stocks has completed with a
\* new stock table
SuccessfulStockLoad ==
    /\ history' # history
    /\ Len(history') >= 2
    /\ history'[1].kind = "stocks_imported"
    /\ history'[2].kind = "stocks_loaded"

\* the row has more than 3 non-empty cells and a text cell that holds a
\* store marker in any case
HeaderLike(row) ==
    /\ Cardinality({c \in DOMAIN row : row[c] # NaN}) > 3
    /\ \E c \in DOMAIN row :
          /\ row[c].k = "text"
          /\ \E m \in StoreMarkers :
                \E i \in 0..(Len(row[c].s) - Len(m)) :
                    LowerStr(SubSeq(row[c].s, i + 1, i + Len(m))) = m

\* h is the first header-like row among the rows 0..14 of the sheet
HeaderRow(sheet, h) ==
    /\ h \in 0..14
    /\ h < Len(sheet.rows)
    /\ HeaderLike(sheet.rows[h + 1])
    /\ \A j \in 0..(h - 1) : ~HeaderLike(sheet.rows[j + 1])

\* a is the first non-empty column of the row
FirstFilled(row, a) ==
    /\ a \in 0..(Len(row) - 1)
    /\ row[a + 1] # NaN
    /\ \A c \in 0..(a - 1) : row[c + 1] = NaN

\* the records are the rows of the sheet from row h+2 on that have an
\* Article or a Name, with the Article of column a and the Name of column a+1
RecordsFrom(sheet, h, a, records) ==
    \E kept \in {SelectSeq(SubSeq(sheet.rows, h + 3, Len(sheet.rows)),
                           LAMBDA row : row[a + 1] # NaN \/ row[a + 2] # NaN)} :
        /\ Len(records) = Len(kept)
        /\ \A i \in 1..Len(kept) :
               /\ records[i].Article = kept[i][a + 1]
               /\ records[i].Name = kept[i][a + 2]

\* every store comes from the header of a column from a+2 to the last one,
\* and the last column is a store when its header is a name
StoresFromColumns(sheet, h, a, store_list) ==
    /\ \A i \in 1..Len(store_list) :
           \E c \in (a + 2)..(sheet.width - 1) :
               \/ store_list[i] = Strip(CellStr(sheet.rows[h + 1][c + 1]))
               \/ c = a + 2 /\ store_list[i] = DefaultStore
    /\ sheet.rows[h + 1][sheet.width].k = "text"
       /\ Strip(sheet.rows[h + 1][sheet.width].s) # <<>>
       /\ LowerStr(Strip(sheet.rows[h + 1][sheet.width].s)) # TotalMarker
           => store_list # <<>>
              /\ store_list[Len(store_list)] = Strip(sheet.rows[h + 1][sheet.width].s)

LayoutOf(sheet, h, a, store_list, table) ==
    /\ HeaderRow(sheet, h)
    /\ FirstFilled(sheet.rows[h + 3], a)
    /\ RecordsFrom(sheet, h, a, table.rows)
    /\ StoresFromColumns(sheet, h, a, store_list)

BlankHeader(c) == c = NaN \/ (c.k = "text" /\ Strip(c.s) = <<>>)

\* the store columns of the sheet as [name, col], left to right: a blank
\* header is the default label in the first store column and no store in
\* another, the total is no store
OwnColumns(header, first, width) ==
    LET F[col \in (first - 1)..(width - 1)] ==
            IF col < first THEN <<>>
            ELSE IF BlankHeader(header[col + 1])
            THEN (IF col = first
                  THEN Append(F[col - 1], [name |-> DefaultStore, col |-> col])
                  ELSE F[col - 1])
            ELSE IF LowerStr(Strip(CellStr(header[col + 1]))) = TotalMarker
            THEN F[col - 1]
            ELSE Append(F[col - 1],
                        [name |-> Strip(CellStr(header[col + 1])), col |-> col])
    IN  F[width - 1]

\* the store list is the names of the own columns and every record holds,
\* for every store, the integer value of the cell in the store's own column
StoresAndQuantities(sheet, h, a, own, store_list, records) ==
    \E kept \in {SelectSeq(SubSeq(sheet.rows, h + 3, Len(sheet.rows)),
                           LAMBDA row : row[a + 1] # NaN \/ row[a + 2] # NaN)} :
        /\ store_list = [i \in 1..Len(own) |-> own[i].name]
        /\ Len(records) = Len(kept)
        /\ \A r \in 1..Len(kept) :
               /\ Len(records[r].qty) = Len(own)
               /\ \A i \in 1..Len(own) :
                      records[r].qty[i] = Quantity(kept[r][own[i].col + 1])

StoresAsClaimed(sheet, h, a, store_list, records) ==
    StoresAndQuantities(sheet, h, a,
                        OwnColumns(sheet.rows[h + 1], a + 2, sheet.width),
                        store_list, records)

\* no store column is left out and no header cell but the first is empty
NothingSkipped(sheet, h, a) ==
    /\ Len(OwnColumns(sheet.rows[h + 1], a + 2, sheet.width)) = sheet.width - a - 2
    /\ \A c \in (a + 3)..(sheet.width - 1) : sheet.rows[h + 1][c + 1] # NaN

\* C22: after a completed stock load the store list holds, from left to
\* right, the trimmed header of every store column but those with a blank
\* header (the default label for a blank first one) and those named as the
\* total, and every record holds for every store the integer value of the
\* cell in that store's own column, 0 for an empty or non-numeric cell.
C22_StoresAndOwnColumns ==
    [][SuccessfulStockLoad =>
           \E h \in 0..14, a \in 0..1 :
               /\ HeaderRow(StockSheetFiles[current_stocks_file'], h)
               /\ FirstFilled(StockSheetFiles[current_stocks_file'].rows[h + 3], a)
               /\ StoresAsClaimed(StockSheetFiles[current_stocks_file'], h, a,
                                  stores', stocks_df'.rows)]_vars

\* the same for the sheets in which every store column is a store
C22_StoresWhenNothingSkipped ==
    [][SuccessfulStockLoad =>
           \E h \in 0..14, a \in 0..1 :
               /\ HeaderRow(StockSheetFiles[current_stocks_file'], h)
               /\ FirstFilled(StockSheetFiles[current_stocks_file'].rows[h + 3], a)
               /\ NothingSkipped(StockSheetFiles[current_stocks_file'], h, a)
                      => StoresAsClaimed(StockSheetFiles[current_stocks_file'], h, a,
                                         stores', stocks_df'.rows)]_vars

\* the store names are as claimed whenever no header cell after the first
\* store column is empty
C22_NamesUnlessEmptyCell ==
    [][SuccessfulStockLoad =>
           \E h \in 0..14, a \in 0..1 :
               /\ HeaderRow(StockSheetFiles[current_stocks_file'], h)
               /\ FirstFilled(StockSheetFiles[current_stocks_file'].rows[h + 3], a)
               /\ (\A c \in (a + 3)..(StockSheetFiles[current_stocks_file'].width - 1) :
                       StockSheetFiles[current_stocks_file'].rows[h + 1][c + 1] # NaN)
                      => stores' =
                             [i \in 1..Len(OwnColumns(
                                   StockSheetFiles[current_stocks_file'].rows[h + 1],
                                   a + 2, StockSheetFiles[current_stocks_file'].width)) |->
                                 OwnColumns(
                                   StockSheetFiles[current_stocks_file'].rows[h + 1],
                                   a + 2, StockSheetFiles[current_stocks_file'].width)[i].name]]_vars

\* C23: the store list used for display is, in order, the quantity columns
\* of the installed stock table, after successful and failed loads alike.
C23_StoresMatchTable == stores = stocks_df.cols

\* the step is a stock load that raised: the error box of import_stocks or
\* the error entry of auto_load_stocks_file
StockLoadRaised ==
    \/ "stocks_error" \in msgbox'
    \/ /\ history' # history
       /\ history' # <<>>
       /\ history'[1].kind = "stocks_load_error"

\* the same as long as no load raises
C23_StoresMatchTableUnlessRaised ==
    [][(stores = stocks_df.cols /\ ~StockLoadRaised) => stores' = stocks_df'.cols]_vars

\* a stock table is installed and the store list is that of a later sheet
NewStoresBesideOldTable ==
    /\ stocks_df.loaded
    /\ stores # stocks_df.cols

SuccessKinds == {"stocks_imported", "stocks_loaded", "auto_loaded_stocks"}

\* the step has shown the warning that no store-header row was found
NoHeaderWarned == "stocks_warning" \in msgbox'

\* the entries the step has put on top of the history
Gained == SubSeq(history', 1, Len(history') - Len(history))

\* C24: a stock load that finds no store-header row, by import_stocks or by
\* auto_load_stocks_file, adds no entry to the history that says stocks were
\* imported or loaded.
C24_NoHeaderNotLoggedAsSuccess ==
    [][NoHeaderWarned =>
           \A i \in 1..Len(Gained) : Gained[i].kind \notin SuccessKinds]_vars

\* a load that finds no header leaves the stock table and the store list
\* as they were
C24_NoHeaderKeepsTable ==
    [][NoHeaderWarned => UNCHANGED <<stocks_df, stores>>]_vars

\* the step starts the program: __init__ calls load_history
Started == phase = "closed" /\ phase' = "running"

\* the newest entry is the marker load_history logs
MarkerOnTop(h) == h # <<>> /\ h[1].kind = "history_loaded"

\* the file cannot be read, is no list, or holds an item without a
\* timestamp that parses
Damaged(file) ==
    /\ file.exists
    /\ \/ file.json # "list"
       \/ \E i \in 1..Len(file.entries) : file.entries[i].ts = NoTimestamp

\* C25: load_history does not raise and leaves the 'history loaded' marker
\* as the newest entry; after a history file that cannot be read, is no
\* list or holds an item without a parsable timestamp, the history is that
\* marker alone.
C25_DamagedFileDiscarded ==
    [][Started =>
           /\ ~raised'
           /\ MarkerOnTop(history')
           /\ Damaged(history_file) => Len(history') = 1]_vars

\* a JSON object whose keys all start with a timestamp that parses
EntriesAsKeys(file) ==
    /\ file.exists
    /\ file.json = "object"
    /\ \A i \in 1..Len(file.entries) : file.entries[i].ts # NoTimestamp

\* the same for every file but a JSON object with entries as keys
C25_DamagedFileDiscardedUnlessKeys ==
    [][Started =>
           /\ ~raised'
           /\ MarkerOnTop(history')
           /\ (Damaged(history_file) /\ ~EntriesAsKeys(history_file))
                  => Len(history') = 1]_vars

\* the program has started on a list that holds a recent entry and an item
\* without timestamp, and the history is the marker alone
C25_Witness ==
    /\ phase = "running"
    /\ history_file.json = "list"
    /\ \E i \in 1..Len(history_file.entries) : history_file.entries[i].ts = NoTimestamp
    /\ \E i \in 1..Len(history_file.entries) :
           /\ history_file.entries[i].ts # NoTimestamp
           /\ Recent(history_file.entries[i], now)
    /\ Len(history) = 1
    /\ MarkerOnTop(history)

\* a quick-search button or the paste of the history menu
QuickOrPaste ==
    \/ \E t \in quick_texts : SetSearchText(t)
    \/ \E t \in ClipboardTexts : PasteIntoSearch(t)

\* the text in the search field is the query searched last
FieldSearchedLast == last_query = Query(Strip(search_edit))

\* the newest search entry is for the query and the one before it is not
OneEntryOnTop(h, query) ==
    /\ SearchEntries(h) # <<>>
    /\ SearchEntries(h)[1].query = query
    /\ Len(SearchEntries(h)) >= 2 => SearchEntries(h)[2].query # query

\* C26: a quick-search button or a paste leaves a pending debounced search
\* pending; when it fires it searches the text then in the search field,
\* and when that is the query searched last it adds no entry, so that the
\* entry the button or the paste has recorded stays the only one for it.
C26_PendingSearchAddsNoEntry ==
    /\ [][QuickOrPaste => search_timer' = search_timer]_vars
    /\ [][(SearchTimerTimeout /\ search_outcome' \in {"recorded", "repeat"})
             => last_query' = Query(Strip(search_edit))]_vars
    /\ [][(QuickOrPaste /\ search_outcome' \in {"recorded", "repeat"})
             => FieldSearchedLast']_vars
    /\ [][(SearchTimerTimeout /\ FieldSearchedLast) => history' = history]_vars
    /\ [][(QuickOrPaste /\ search_outcome' = "recorded")
             => OneEntryOnTop(history', Strip(search_edit'))]_vars

\* the debounce of an edit has fired after a quick-search button was
\* pressed, and the history holds the one entry of the button
C26_Witness ==
    /\ search_edit \in quick_texts
    /\ search_timer = {}
    /\ quiet_ms = search_delay_ms
    /\ ~confirmed_since_edit
    /\ search_outcome = "repeat"
    /\ OneEntryOnTop(history, Strip(search_edit))

=============================================================================
